---- MODULE Spec2Model ----
(***************************************************************************)
(* Model of ConLangIPATool.                                                *)
(*  - the language-creation wizard (src/src/ui/language_creation.py): the  *)
(*    line parsers of LexiconPage and MorphologyPage, the consonant-cluster*)
(*    generator, the position lists and collect_data of PhonologyPage, the *)
(*    pages and buttons of the wizard, and accept;                         *)
(*  - the language data model (src/src/core/language.py);                  *)
(*  - the dictionary tab (src/src/widgets/dictionary_widget.py);           *)
(*  - the translator tab (src/src/widgets/translator_widget.py);           *)
(*  - the IPA input tab (src/src/widgets/ipa_input_widget.py);             *)
(*  - the main window and its language store (src/src/ui/main_window.py);  *)
(*  - the settings file (src/src/core/config.py).                          *)
(*                                                                         *)
(* Each part has its own specification (SpecLexicon, SpecLexiconTwice,     *)
(* SpecMorphology, SpecClusters, SpecStress, SpecName, SpecDictionary,     *)
(* SpecConfig, SpecRoundTrip, SpecWizard, SpecMain, SpecIpa,               *)
(* SpecTranslator); the variables a specification does not use stay at     *)
(* their idle values.                                                      *)
(*                                                                         *)
(* Python lists that are shared by reference are objects of the variable   *)
(* lists, named by an identity; Optional values are sequences of at most   *)
(* one element (None, Some).                                               *)
(*                                                                         *)
(* A Python str is a sequence of Unicode code points (a tuple of naturals),*)
(* so that strip, find, split and sorted are computed, not assumed.        *)
(* Indices handed around by find/rfind are Python's: 0-based, -1 = absent. *)
(***************************************************************************)
EXTENDS Naturals, Integers, Sequences, FiniteSets, TLC

VARIABLES lexicon_edit,   \* LexiconPage.lexicon_edit.toPlainText()
          entries,        \* the entries list LexiconPage.collect_data returns
          affix_edit,     \* MorphologyPage.affix_edit.toPlainText()
          derived_edit,   \* MorphologyPage.derived_edit.toPlainText()
          affixes,        \* first list MorphologyPage.collect_data returns
          derived,        \* second list MorphologyPage.collect_data returns
          consonants,     \* consonant_chart.selected_symbols()
          clusters,       \* the list _generate_clusters returns
          returned,       \* names of the operations that have returned
          custom_pattern, \* a CustomStressPattern object (its four fields)
          profile,        \* a LanguageProfile whose display_name is read
          shown,          \* the value display_name returned
          raised,         \* the exception the last call let escape
          wizard,         \* the LanguageCreationWizard that is executing
          current_language,   \* MainWindow.current_language
          languages_store,    \* MainWindow.languages_store
          language_taglines,  \* MainWindow.language_taglines
          issued,         \* the identifiers uuid.uuid4() has returned, in order
          lists,          \* the list objects: identity -> items
          _entries,       \* DictionaryWidget._entries: identity of a list
          table_rows,     \* the rows DictionaryWidget.table displays
          word_input,     \* DictionaryWidget.word_input.text()
          ipa_input,      \* DictionaryWidget.ipa_input.text()
          definition_input,   \* DictionaryWidget.definition_input.text()
          search_input,   \* DictionaryWidget.search_input.text()
          selected_rows,  \* rows of DictionaryWidget.table.selectedIndexes()
          message_box,    \* title of the QMessageBox the last handler showed
          handler,        \* the handler that ran last
          translator_lexicon, \* TranslatorWidget._lexicon
          grammar_notes,  \* the text GrammarEditorWidget shows
          settings,       \* Config.settings
          config_file,    \* content of ~/.conlang_ipa_tool/config.json
          fresh_settings, \* settings of the Config the next process builds
          source_edit,    \* TranslatorWidget.source_edit.toPlainText()
          output_edit,    \* TranslatorWidget.output_edit.toPlainText()
          status_label,   \* TranslatorWidget.status_label.text()
          input_edit,     \* IPAInputWidget.input_edit.toPlainText()
          ipa_output_edit,    \* IPAInputWidget.output_edit.toPlainText()
          _history,       \* IPAInputWidget._history
          history_list,   \* the items of IPAInputWidget.history_list
          stack           \* MainWindow.stack.currentWidget()

parser_vars == <<lexicon_edit, entries, affix_edit, derived_edit, affixes,
                 derived, consonants, clusters>>
stress_vars == <<custom_pattern>>
name_vars == <<profile, shown>>
window_vars == <<wizard, current_language, languages_store,
                 language_taglines, issued, translator_lexicon,
                 grammar_notes, stack>>
heap_vars == <<lists>>
dictionary_vars == <<_entries, table_rows, word_input, ipa_input,
                     definition_input, search_input, selected_rows>>
call_vars == <<raised, message_box, handler>>
config_vars == <<settings, config_file, fresh_settings>>
tab_vars == <<source_edit, output_edit, status_label, input_edit,
              ipa_output_edit, _history, history_list>>

\* everything outside the wizard's parsers and cluster generator
app_vars == <<stress_vars, name_vars, window_vars, heap_vars,
              dictionary_vars, call_vars, config_vars, tab_vars>>

vars == <<parser_vars, returned, app_vars>>

\* Python's None, and an Optional[T] that is present: a sequence of at most
\* one T
None == <<>>
Some(x) == <<x>>

\* the objects a specification does not construct
ParsersIdle ==
    /\ lexicon_edit = <<>> /\ entries = <<>>
    /\ affix_edit = <<>> /\ derived_edit = <<>>
    /\ affixes = <<>> /\ derived = <<>>
    /\ consonants = <<>> /\ clusters = <<>>
StressIdle == custom_pattern = None
NameIdle == profile = None /\ shown = None
WindowIdle ==
    /\ wizard = None /\ current_language = None
    /\ languages_store = <<>> /\ language_taglines = <<>>
    /\ issued = <<>>
    /\ translator_lexicon = <<>> /\ grammar_notes = <<>>
    /\ stack = "start_screen"
HeapIdle == lists = <<>>
DictionaryIdle ==
    /\ _entries = None /\ table_rows = <<>>
    /\ word_input = <<>> /\ ipa_input = <<>>
    /\ definition_input = <<>> /\ search_input = <<>>
    /\ selected_rows = {}
CallIdle == raised = None /\ message_box = None /\ handler = None
ConfigIdle == settings = <<>> /\ config_file = None /\ fresh_settings = None
TabsIdle ==
    /\ source_edit = <<>> /\ output_edit = <<>> /\ status_label = <<>>
    /\ input_edit = <<>> /\ ipa_output_edit = <<>>
    /\ _history = <<>> /\ history_list = <<>>
AppIdle ==
    /\ StressIdle /\ NameIdle /\ WindowIdle /\ HeapIdle /\ DictionaryIdle
    /\ CallIdle /\ ConfigIdle /\ TabsIdle

----------------------------------------------------------------------------
(* Bounds of the model *)

\* longest text typed into the seed-lexicon box
MaxLexiconLen == 5
\* longest text typed into the affix box
MaxAffixLen == 5
\* most tokens (see DerivedTokens) typed into the derived-word box
MaxDerivedTokens == 5
\* most consonants checked in the chart
MaxInventory == 16
\* most consonants checked among the two-character symbols and their letters
MaxSmallInventory == 4

----------------------------------------------------------------------------
(* Characters and separators (code points) *)

SepEq == <<61>>          \* "="
SepColon == <<58>>       \* ":"
SepArrow == <<45, 62>>   \* "->"
OpenParen == <<40>>      \* "("
CloseParen == <<41>>     \* ")"
Hash == <<35>>           \* "#"
Empty == <<>>            \* ""

\* the characters the modelled user types into the lexicon box:
\* a space newline = : ( ) #
LexiconAlphabet == {97, 32, 10, 61, 58, 40, 41, 35}

\* the characters typed into the affix box:
\* a space newline = : - #
AffixAlphabet == {97, 32, 10, 61, 58, 45, 35}

\* what is typed into the derived-word box, the arrow in one piece:
\* a space newline = -> # -
DerivedTokens == {<<97>>, <<32>>, <<10>>, <<61>>, <<45, 62>>, <<35>>, <<45>>}

----------------------------------------------------------------------------
(* Python str primitives used by the parsers *)

\* str.isspace() of one character: what str.strip() removes
IsSpace(c) == c \in ({9, 10, 11, 12, 13, 28, 29, 30, 31, 32, 133, 160, 5760,
                      8232, 8233, 8239, 8287, 12288} \cup (8192..8202))

\* the characters str.splitlines() breaks a line at
IsLineBreak(c) == c \in {10, 11, 12, 13, 28, 29, 30, 133, 8232, 8233}

\* s[lo:hi] for 0 <= lo, 0 <= hi
Slice(s, lo, hi) == SubSeq(s, lo + 1, IF hi > Len(s) THEN Len(s) ELSE hi)

\* s.strip()
Strip(s) ==
    LET keep == {i \in 1..Len(s) : ~IsSpace(s[i])}
    IN  IF keep = {} THEN <<>>
        ELSE LET lo == CHOOSE i \in keep : \A j \in keep : i <= j
                 hi == CHOOSE i \in keep : \A j \in keep : j <= i
             IN  SubSeq(s, lo, hi)

\* the 0-based offsets at which sub occurs in s
Occurrences(s, sub) ==
    {i \in 0..(Len(s) - Len(sub)) : SubSeq(s, i + 1, i + Len(sub)) = sub}

\* s.find(sub)
Find(s, sub) ==
    LET occ == Occurrences(s, sub)
    IN  IF occ = {} THEN -1 ELSE CHOOSE i \in occ : \A j \in occ : i <= j

\* s.rfind(sub)
RFind(s, sub) ==
    LET occ == Occurrences(s, sub)
    IN  IF occ = {} THEN -1 ELSE CHOOSE i \in occ : \A j \in occ : j <= i

\* sub in s
Contains(s, sub) == Find(s, sub) # -1

\* s.startswith(prefix)
StartsWith(s, prefix) ==
    Len(s) >= Len(prefix) /\ SubSeq(s, 1, Len(prefix)) = prefix

\* [segment.strip() for segment in s.split(sep, 1)], for sep in s
SplitOnceStripped(s, sep) ==
    LET k == Find(s, sep)
    IN  <<Strip(Slice(s, 0, k)), Strip(Slice(s, k + Len(sep), Len(s)))>>

\* s.splitlines(): the loop over the characters of s from index i (1-based),
\* cur being the line collected so far
RECURSIVE SplitLinesFrom(_, _, _)
SplitLinesFrom(s, i, cur) ==
    IF i > Len(s) THEN (IF cur = <<>> THEN <<>> ELSE <<cur>>)
    ELSE IF IsLineBreak(s[i])
         THEN LET next == IF s[i] = 13 /\ i < Len(s) /\ s[i + 1] = 10
                          THEN i + 2 ELSE i + 1
              IN  <<cur>> \o SplitLinesFrom(s, next, <<>>)
         ELSE SplitLinesFrom(s, i + 1, Append(cur, s[i]))

SplitLines(s) == SplitLinesFrom(s, 1, <<>>)

\* the test that makes the three parsers skip a stripped line
Skipped_keepsComments(line) == line = <<>>

Skipped(line) == line = <<>> \/ StartsWith(line, Hash)

----------------------------------------------------------------------------
(* LexiconPage.collect_data *)

LexiconEntry(conlang, part_of_speech, english, ipa) ==
    [conlang |-> conlang, part_of_speech |-> part_of_speech,
     english |-> english, ipa |-> ipa]

\* "if ':' in left" (lines 659-662): <<english, part_of_speech>>
LexiconLeft_lastColon(left) ==
    IF Contains(left, SepColon)
    THEN LET k == RFind(left, SepColon)
         IN  <<Strip(Slice(left, 0, k)), Strip(Slice(left, k + 1, Len(left)))>>
    ELSE <<left, Empty>>

LexiconLeft(left) ==
    IF Contains(left, SepColon)
    THEN SplitOnceStripped(left, SepColon)
    ELSE <<left, Empty>>

\* "if '(' in right and ')' in right" (lines 664-673): <<conlang, ipa>>
LexiconRight_firstClose(right) ==
    LET start == Find(right, OpenParen)
        end == Find(right, CloseParen)
    IN  IF Contains(right, OpenParen) /\ Contains(right, CloseParen)
        THEN IF end > start
             THEN <<Strip(Slice(right, 0, start)),
                    Strip(Slice(right, start + 1, end))>>
             ELSE <<right, Empty>>
        ELSE <<right, Empty>>

LexiconRight(right) ==
    LET start == Find(right, OpenParen)
        end == RFind(right, CloseParen)
    IN  IF Contains(right, OpenParen) /\ Contains(right, CloseParen)
        THEN IF end > start
             THEN <<Strip(Slice(right, 0, start)),
                    Strip(Slice(right, start + 1, end))>>
             ELSE <<right, Empty>>
        ELSE <<right, Empty>>

\* the else branch for a line without '=' (lines 675-678):
\* <<conlang, part_of_speech>>
LexiconNoEquals_unstripped(line) ==
    IF Contains(line, SepColon)
    THEN LET k == Find(line, SepColon)
         IN  <<Slice(line, 0, k), Slice(line, k + 1, Len(line))>>
    ELSE <<line, Empty>>

LexiconNoEquals(line) ==
    IF Contains(line, SepColon)
    THEN SplitOnceStripped(line, SepColon)
    ELSE <<line, Empty>>

\* the body of the loop for one stripped line that is not skipped
ParseLexiconLine(line) ==
    IF Contains(line, SepEq)
    THEN LET lr == SplitOnceStripped(line, SepEq)
             ep == LexiconLeft(lr[1])
             ci == LexiconRight(lr[2])
         IN  LexiconEntry(ci[1], ep[2], ep[1], ci[2])
    ELSE LET cp == LexiconNoEquals(line)
         IN  LexiconEntry(cp[1], cp[2], Empty, Empty)

\* the for loop over the raw lines, from line i, acc being the entries so far
RECURSIVE LexiconLoop(_, _, _)
LexiconLoop(lines, i, acc) ==
    IF i > Len(lines) THEN acc
    ELSE LET line == Strip(lines[i])
         IN  IF Skipped(line)
             THEN LexiconLoop(lines, i + 1, acc)
             ELSE LexiconLoop(lines, i + 1, Append(acc, ParseLexiconLine(line)))

CollectLexicon(text) == LexiconLoop(SplitLines(text), 1, <<>>)

----------------------------------------------------------------------------
(* MorphologyPage.collect_data *)

AffixDefinition(label, description) ==
    [label |-> label, description |-> description]

DerivedWordDefinition(base, derived_form, gloss) ==
    [base |-> base, derived_form |-> derived_form, gloss |-> gloss]

\* the body of the affix loop for one stripped line that is not skipped
ParseAffixLine_colonFirst(line) ==
    IF Contains(line, SepColon)
    THEN LET ld == SplitOnceStripped(line, SepColon)
         IN  AffixDefinition(ld[1], ld[2])
    ELSE IF Contains(line, SepEq)
         THEN LET ld == SplitOnceStripped(line, SepEq)
              IN  AffixDefinition(ld[1], ld[2])
         ELSE AffixDefinition(line, Empty)

ParseAffixLine(line) ==
    IF Contains(line, SepEq)
    THEN LET ld == SplitOnceStripped(line, SepEq)
         IN  AffixDefinition(ld[1], ld[2])
    ELSE IF Contains(line, SepColon)
         THEN LET ld == SplitOnceStripped(line, SepColon)
              IN  AffixDefinition(ld[1], ld[2])
         ELSE AffixDefinition(line, Empty)

RECURSIVE AffixLoop(_, _, _)
AffixLoop(lines, i, acc) ==
    IF i > Len(lines) THEN acc
    ELSE LET line == Strip(lines[i])
         IN  IF Skipped(line)
             THEN AffixLoop(lines, i + 1, acc)
             ELSE AffixLoop(lines, i + 1, Append(acc, ParseAffixLine(line)))

\* "if '->' in line" (lines 757-764): <<base, derived_form>>
DerivedArrow_lastArrow(line) ==
    IF Contains(line, SepArrow)
    THEN LET k == RFind(line, SepArrow)
         IN  <<Strip(Slice(line, 0, k)), Strip(Slice(line, k + 2, Len(line)))>>
    ELSE <<Empty, line>>

DerivedArrow(line) ==
    IF Contains(line, SepArrow)
    THEN SplitOnceStripped(line, SepArrow)
    ELSE <<Empty, line>>

\* "if '=' in derived_form" (lines 759, 765-767): <<derived_form, gloss>>
DerivedGloss(derived_form) ==
    IF Contains(derived_form, SepEq)
    THEN SplitOnceStripped(derived_form, SepEq)
    ELSE <<derived_form, Empty>>

\* "base or derived_form" (line 769)
DerivedBase_noFallback(base, derived_form) == base

DerivedBase(base, derived_form) ==
    IF base # Empty THEN base ELSE derived_form

\* the body of the derived-word loop for one stripped line that is not skipped
ParseDerivedLine(line) ==
    LET bd == DerivedArrow(line)
        fg == DerivedGloss(bd[2])
    IN  DerivedWordDefinition(DerivedBase(bd[1], fg[1]), fg[1], fg[2])

RECURSIVE DerivedLoop(_, _, _)
DerivedLoop(lines, i, acc) ==
    IF i > Len(lines) THEN acc
    ELSE LET line == Strip(lines[i])
         IN  IF Skipped(line)
             THEN DerivedLoop(lines, i + 1, acc)
             ELSE DerivedLoop(lines, i + 1, Append(acc, ParseDerivedLine(line)))

CollectAffixes(text) == AffixLoop(SplitLines(text), 1, <<>>)
CollectDerived(text) == DerivedLoop(SplitLines(text), 1, <<>>)

----------------------------------------------------------------------------
(* IPAConsonantChart and PhonologyPage._generate_clusters *)

\* the symbols of the consonant chart's checkboxes (PULMONIC_CONSONANTS,
\* NON_PULMONIC_CONSONANTS, OTHER_CONSONANT_SYMBOLS), as code points
ConsonantChart ==
    {<<98>>, <<98, 810>>, <<99>>, <<100>>, <<100, 810>>, <<102>>, <<104>>,
     <<106>>, <<107>>, <<107, 700>>, <<108>>, <<109>>, <<110>>, <<110,
     810>>, <<112>>, <<112, 700>>, <<112, 810>>, <<113>>, <<113, 700>>,
     <<114>>, <<115>>, <<115, 700>>, <<116>>, <<116, 700>>, <<116, 810>>,
     <<118>>, <<119>>, <<120>>, <<122>>, <<231>>, <<240>>, <<295>>,
     <<331>>, <<448>>, <<449>>, <<450>>, <<451>>, <<595>>, <<598>>,
     <<599>>, <<607>>, <<608>>, <<609>>, <<610>>, <<611>>, <<613>>,
     <<614>>, <<615>>, <<620>>, <<621>>, <<622>>, <<624>>, <<625>>,
     <<626>>, <<627>>, <<628>>, <<632>>, <<633>>, <<635>>, <<637>>,
     <<638>>, <<640>>, <<641>>, <<642>>, <<643>>, <<644>>, <<648>>,
     <<651>>, <<653>>, <<654>>, <<656>>, <<658>>, <<660>>, <<661>>,
     <<664>>, <<665>>, <<667>>, <<668>>, <<669>>, <<671>>, <<673>>,
     <<674>>, <<946>>, <<952>>, <<967>>, <<11377>>}

\* limit = 200
limit == 200

\* a < b for two str, as Python compares them: by code point, a proper
\* prefix first
RECURSIVE StrLess(_, _)
StrLess(a, b) ==
    IF b = <<>> THEN FALSE
    ELSE IF a = <<>> THEN TRUE
    ELSE IF a[1] # b[1] THEN a[1] < b[1]
    ELSE StrLess(Tail(a), Tail(b))

\* the k greatest of a set of str, greatest first
RECURSIVE GreatestOf(_, _)
GreatestOf(strings, k) ==
    IF k = 0 \/ strings = {} THEN <<>>
    ELSE LET last == CHOOSE x \in strings :
                        \A y \in strings : x = y \/ StrLess(y, x)
         IN  <<last>> \o GreatestOf(strings \ {last}, k - 1)

\* sorted(strings, reverse=True) for a set of str
RECURSIVE SortedList_descending(_)
SortedList_descending(strings) ==
    IF strings = {} THEN <<>>
    ELSE LET head == GreatestOf(strings, 16)
         IN  head \o SortedList_descending(
                        strings \ {head[i] : i \in 1..Len(head)})

\* the k least of a set of str, least first
RECURSIVE LeastOf(_, _)
LeastOf(strings, k) ==
    IF k = 0 \/ strings = {} THEN <<>>
    ELSE LET first == CHOOSE x \in strings :
                         \A y \in strings : x = y \/ StrLess(x, y)
         IN  <<first>> \o LeastOf(strings \ {first}, k - 1)

\* sorted(strings) for a set of str, built 16 strings at a time
RECURSIVE SortedList(_)
SortedList(strings) ==
    IF strings = {} THEN <<>>
    ELSE LET head == LeastOf(strings, 16)
         IN  head \o SortedList(strings \ {head[i] : i \in 1..Len(head)})

\* IPAConsonantChart.selected_symbols() with the symbols of checked ticked
selected_symbols(checked) == SortedList(checked)

\* "if first == second: continue"
SamePair_never(first, second) == FALSE

SamePair(first, second) == first = second

\* the inner loop "for second in consonants", from index j, with its break
RECURSIVE InnerLoop(_, _, _, _)
InnerLoop(cons, i, j, acc) ==
    IF j > Len(cons) THEN acc
    ELSE IF SamePair(cons[i], cons[j]) THEN InnerLoop(cons, i, j + 1, acc)
    ELSE LET added == acc \cup {cons[i] \o cons[j]}
         IN  IF Cardinality(added) >= limit THEN added
             ELSE InnerLoop(cons, i, j + 1, added)

\* the outer loop without the break that follows the inner loop
RECURSIVE OuterLoop_noBreak(_, _, _)
OuterLoop_noBreak(cons, i, acc) ==
    IF i > Len(cons) THEN acc
    ELSE OuterLoop_noBreak(cons, i + 1, InnerLoop(cons, i, 1, acc))

\* the outer loop "for first in consonants", from index i, with its break
RECURSIVE OuterLoop(_, _, _)
OuterLoop(cons, i, acc) ==
    IF i > Len(cons) THEN acc
    ELSE LET after == InnerLoop(cons, i, 1, acc)
         IN  IF Cardinality(after) >= limit THEN after
             ELSE OuterLoop(cons, i + 1, after)

\* the whole method: the loops, then "return sorted(clusters)"
_generate_clusters_reversed(cons) == SortedList_descending(OuterLoop(cons, 1, {}))

_generate_clusters(cons) == SortedList(OuterLoop(cons, 1, {}))

----------------------------------------------------------------------------
(* Inputs *)

\* every string of at most n characters of the alphabet
StringsUpTo(alphabet, n) == UNION {[1..k -> alphabet] : k \in 0..n}

LexiconTexts == StringsUpTo(LexiconAlphabet, MaxLexiconLen)

----------------------------------------------------------------------------
(* Specification of the lexicon page *)

InitLexicon ==
    /\ lexicon_edit \in LexiconTexts
    /\ entries = <<>>
    /\ affix_edit = <<>>
    /\ derived_edit = <<>>
    /\ affixes = <<>>
    /\ derived = <<>>
    /\ consonants = <<>>
    /\ clusters = <<>>
    /\ returned = {}
    /\ AppIdle

LexiconPage_collect_data ==
    /\ "lexicon" \notin returned
    /\ entries' = CollectLexicon(lexicon_edit)
    /\ returned' = returned \cup {"lexicon"}
    /\ UNCHANGED <<lexicon_edit, affix_edit, derived_edit, affixes, derived,
                   consonants, clusters, app_vars>>

NextLexicon == LexiconPage_collect_data

SpecLexicon == InitLexicon /\ [][NextLexicon]_vars

AffixTexts == StringsUpTo(AffixAlphabet, MaxAffixLen)

\* the concatenation of a sequence of strings
RECURSIVE Concat(_)
Concat(parts) ==
    IF parts = <<>> THEN <<>> ELSE Head(parts) \o Concat(Tail(parts))

DerivedTexts == {Concat(parts) : parts \in StringsUpTo(DerivedTokens, MaxDerivedTokens)}

----------------------------------------------------------------------------
(* Specification of the morphology page: the user has filled in one of the *)
(* two boxes                                                               *)

InitMorphology ==
    /\ \/ affix_edit \in AffixTexts /\ derived_edit = <<>>
       \/ affix_edit = <<>> /\ derived_edit \in DerivedTexts
    /\ lexicon_edit = <<>>
    /\ entries = <<>>
    /\ affixes = <<>>
    /\ derived = <<>>
    /\ consonants = <<>>
    /\ clusters = <<>>
    /\ returned = {}
    /\ AppIdle

MorphologyPage_collect_data ==
    /\ "morphology" \notin returned
    /\ affixes' = CollectAffixes(affix_edit)
    /\ derived' = CollectDerived(derived_edit)
    /\ returned' = returned \cup {"morphology"}
    /\ UNCHANGED <<lexicon_edit, entries, affix_edit, derived_edit,
                   consonants, clusters, app_vars>>

NextMorphology == MorphologyPage_collect_data

SpecMorphology == InitMorphology /\ [][NextMorphology]_vars

\* the two-character symbols of the chart and the letters they start with
TwoCharPool ==
    LET two == {x \in ConsonantChart : Len(x) = 2}
    IN  two \cup {<<x[1]>> : x \in two}

\* the selections of the bounded model: up to MaxSmallInventory symbols of
\* TwoCharPool, or up to MaxInventory neighbours in the sorted chart
Selections ==
    LET chart == SortedList(ConsonantChart)
    IN  {S \in SUBSET TwoCharPool : Cardinality(S) <= MaxSmallInventory}
        \cup {{chart[i] : i \in {k \in lo..(lo + n - 1) : k <= Len(chart)}} :
                 lo \in 1..Len(chart), n \in 0..MaxInventory}

----------------------------------------------------------------------------
(* Specification of the cluster generator *)

InitClusters ==
    /\ \E checked \in Selections : consonants = selected_symbols(checked)
    /\ clusters = <<>>
    /\ lexicon_edit = <<>>
    /\ entries = <<>>
    /\ affix_edit = <<>>
    /\ derived_edit = <<>>
    /\ affixes = <<>>
    /\ derived = <<>>
    /\ returned = {}
    /\ AppIdle

PhonologyPage_generate_clusters ==
    /\ "clusters" \notin returned
    /\ clusters' = _generate_clusters(consonants)
    /\ returned' = returned \cup {"clusters"}
    /\ UNCHANGED <<lexicon_edit, entries, affix_edit, derived_edit, affixes,
                   derived, consonants, app_vars>>

NextClusters == PhonologyPage_generate_clusters

SpecClusters == InitClusters /\ [][NextClusters]_vars

----------------------------------------------------------------------------
(* What the claims speak about: lines, text before and after a separator *)

\* the input lines that are non-empty and no comment once stripped, stripped,
\* in input order
KeptLines(text) ==
    LET lines == SplitLines(text)
        kept == {i \in 1..Len(lines) :
                    Strip(lines[i]) # <<>> /\ Strip(lines[i])[1] # 35}
    IN  [k \in 1..Cardinality(kept) |->
            Strip(lines[CHOOSE i \in kept :
                            Cardinality({j \in kept : j <= i}) = k])]

\* 1-based position of the first occurrence of sep in s (sep occurs in s)
FirstAt(s, sep) ==
    CHOOSE i \in 1..Len(s) :
        /\ i + Len(sep) - 1 <= Len(s)
        /\ SubSeq(s, i, i + Len(sep) - 1) = sep
        /\ \A j \in 1..(i - 1) : SubSeq(s, j, j + Len(sep) - 1) # sep

Has(s, sep) ==
    \E i \in 1..Len(s) : i + Len(sep) - 1 <= Len(s)
                         /\ SubSeq(s, i, i + Len(sep) - 1) = sep

TrimmedBefore(s, sep) == Strip(SubSeq(s, 1, FirstAt(s, sep) - 1))
TrimmedAfter(s, sep) == Strip(SubSeq(s, FirstAt(s, sep) + Len(sep), Len(s)))

\* t is a contiguous part of s
IsPartOf(t, s) ==
    \E i \in 1..(Len(s) + 1) : i + Len(t) - 1 <= Len(s)
                               /\ SubSeq(s, i, i + Len(t) - 1) = t

LexiconReturned == "lexicon" \in returned

----------------------------------------------------------------------------
(* Claims about LexiconPage.collect_data *)

\* C1: for a parsed line that contains '=', the line is split at its first
\* '=': english is the trimmed text of the left side before its first ':'
\* and part_of_speech the trimmed text after it (no ':' on the left: english
\* is the whole left side, part_of_speech is ''); conlang and ipa are parts
\* of the right side only.
C1_EqualsLine ==
    LexiconReturned =>
      LET kept == KeptLines(lexicon_edit)
      IN
        /\ Len(entries) = Len(kept)
        /\ \A k \in 1..Len(kept) :
            LET line == kept[k]
                e == entries[k]
            IN  Has(line, SepEq) =>
                  LET left == TrimmedBefore(line, SepEq)
                      right == TrimmedAfter(line, SepEq)
                  IN  /\ IF Has(left, SepColon)
                         THEN /\ e.english = TrimmedBefore(left, SepColon)
                              /\ e.part_of_speech = TrimmedAfter(left, SepColon)
                         ELSE /\ e.english = left
                              /\ e.part_of_speech = <<>>
                      /\ IsPartOf(e.conlang, right)
                      /\ IsPartOf(e.ipa, right)

\* a line "english : pos = conlang" with all three fields filled was parsed
C1_Witness ==
    /\ LexiconReturned
    /\ \E k \in 1..Len(entries) :
        /\ k <= Len(KeptLines(lexicon_edit))
        /\ Has(KeptLines(lexicon_edit)[k], SepEq)
        /\ Has(TrimmedBefore(KeptLines(lexicon_edit)[k], SepEq), SepColon)
        /\ entries[k].english # <<>>
        /\ entries[k].part_of_speech # <<>>
        /\ entries[k].conlang # <<>>

\* C2: for a parsed line without '=', conlang is the trimmed text before the
\* first ':' and part_of_speech the trimmed text after it (no ':': conlang is
\* the whole line and part_of_speech is ''); english and ipa are ''.
C2_NoEqualsLine ==
    LexiconReturned =>
      LET kept == KeptLines(lexicon_edit)
      IN
        /\ Len(entries) = Len(kept)
        /\ \A k \in 1..Len(kept) :
            LET line == kept[k]
                e == entries[k]
            IN  ~Has(line, SepEq) =>
                  /\ e.english = <<>>
                  /\ e.ipa = <<>>
                  /\ IF Has(line, SepColon)
                     THEN /\ e.conlang = TrimmedBefore(line, SepColon)
                          /\ e.part_of_speech = TrimmedAfter(line, SepColon)
                     ELSE /\ e.conlang = line
                          /\ e.part_of_speech = <<>>

\* a line "conlang : pos" whose two sides needed trimming was parsed
C2_Witness ==
    /\ LexiconReturned
    /\ \E k \in 1..Len(entries) :
        /\ k <= Len(KeptLines(lexicon_edit))
        /\ ~Has(KeptLines(lexicon_edit)[k], SepEq)
        /\ Has(KeptLines(lexicon_edit)[k], SepColon)
        /\ Has(KeptLines(lexicon_edit)[k], <<32>>)
        /\ entries[k].conlang # <<>>
        /\ entries[k].part_of_speech # <<>>

\* the right side of a parsed line with '=' (trimmed)
RightSide(line) == TrimmedAfter(line, SepEq)

\* 1-based position of the last ')' in s (s has one)
LastClose(s) ==
    CHOOSE i \in 1..Len(s) :
        s[i] = 41 /\ \A j \in (i + 1)..Len(s) : s[j] # 41

\* the right side has a '(' that precedes a ')'
Parenthesized(s) ==
    \E i, j \in 1..Len(s) : i < j /\ s[i] = 40 /\ s[j] = 41

\* C3 as stated: with a parenthesized part, ipa is the substring strictly
\* between the first '(' and the last ')' and conlang is everything before
\* the first '('; otherwise conlang is the whole right side and ipa is ''.
C3_Original ==
    LexiconReturned =>
      LET kept == KeptLines(lexicon_edit)
      IN
        /\ Len(entries) = Len(kept)
        /\ \A k \in 1..Len(kept) :
            LET line == kept[k]
                e == entries[k]
            IN  Has(line, SepEq) =>
                  LET right == RightSide(line)
                  IN  IF Parenthesized(right)
                      THEN /\ e.ipa = SubSeq(right, FirstAt(right, OpenParen) + 1,
                                             LastClose(right) - 1)
                           /\ e.conlang = SubSeq(right, 1,
                                                 FirstAt(right, OpenParen) - 1)
                      ELSE /\ e.conlang = right
                           /\ e.ipa = <<>>

\* C3 amended: with a parenthesized part, ipa is the whitespace-trimmed
\* substring strictly between the first '(' and the last ')' and conlang is
\* the whitespace-trimmed text before the first '('; otherwise conlang is the
\* whole right side and ipa is ''.
C3_Parenthesized ==
    LexiconReturned =>
      LET kept == KeptLines(lexicon_edit)
      IN
        /\ Len(entries) = Len(kept)
        /\ \A k \in 1..Len(kept) :
            LET line == kept[k]
                e == entries[k]
            IN  Has(line, SepEq) =>
                  LET right == RightSide(line)
                  IN  IF Parenthesized(right)
                      THEN /\ e.ipa = Strip(SubSeq(right,
                                                   FirstAt(right, OpenParen) + 1,
                                                   LastClose(right) - 1))
                           /\ e.conlang = Strip(SubSeq(right, 1,
                                                FirstAt(right, OpenParen) - 1))
                      ELSE /\ e.conlang = right
                           /\ e.ipa = <<>>

\* a right side "conlang (ipa)" with both parts filled was parsed
C3_Witness ==
    /\ LexiconReturned
    /\ \E k \in 1..Len(entries) :
        /\ k <= Len(KeptLines(lexicon_edit))
        /\ Has(KeptLines(lexicon_edit)[k], SepEq)
        /\ Parenthesized(RightSide(KeptLines(lexicon_edit)[k]))
        /\ entries[k].ipa # <<>>
        /\ entries[k].conlang # <<>>

\* C4: one entry for every line that is non-empty and no '#' comment after
\* stripping, none for any other line, the entries in the order of their
\* lines: the k-th entry is the one parsed from the k-th such line.
C4_OneEntryPerLine ==
    LexiconReturned =>
      LET kept == KeptLines(lexicon_edit)
      IN
        /\ Len(entries) = Len(kept)
        /\ \A k \in 1..Len(kept) : entries[k] = ParseLexiconLine(kept[k])

\* a text with a comment line, then two different parsed lines
C4_Witness ==
    /\ LexiconReturned
    /\ Len(entries) = 2
    /\ entries[1] # entries[2]
    /\ Len(SplitLines(lexicon_edit)) = 3
    /\ StartsWith(Strip(SplitLines(lexicon_edit)[1]), Hash)

\* C5: every entry the lexicon parser produces has a non-empty conlang form.
C5_ConlangRequired ==
    LexiconReturned => \A k \in 1..Len(entries) : entries[k].conlang # <<>>

----------------------------------------------------------------------------
(* Claims about MorphologyPage.collect_data *)

MorphologyReturned == "morphology" \in returned

\* the derived form and gloss the claims read off a remainder
FormOf(rem) == IF Has(rem, SepEq) THEN TrimmedBefore(rem, SepEq) ELSE rem
GlossOf(rem) == IF Has(rem, SepEq) THEN TrimmedAfter(rem, SepEq) ELSE <<>>

\* C6 as stated: for every parsed line with '->', base is the trimmed text
\* before the first '->'; derived_form and gloss are the trimmed sides of
\* the first '=' of the remainder (no '=': the remainder and '').
C6_Original ==
    MorphologyReturned =>
      LET kept == KeptLines(derived_edit)
      IN
        /\ Len(derived) = Len(kept)
        /\ \A k \in 1..Len(kept) :
            LET line == kept[k]
                d == derived[k]
            IN  Has(line, SepArrow) =>
                  LET rem == TrimmedAfter(line, SepArrow)
                  IN  /\ d.base = TrimmedBefore(line, SepArrow)
                      /\ d.derived_form = FormOf(rem)
                      /\ d.gloss = GlossOf(rem)

\* C6 amended: for every parsed line with '->', base is the trimmed text
\* before the first '->' when that text is non-empty and the derived form
\* otherwise; derived_form and gloss are the trimmed sides of the first '='
\* of the remainder (no '=': the remainder and '').
C6_ArrowLine ==
    MorphologyReturned =>
      LET kept == KeptLines(derived_edit)
      IN
        /\ Len(derived) = Len(kept)
        /\ \A k \in 1..Len(kept) :
            LET line == kept[k]
                d == derived[k]
            IN  Has(line, SepArrow) =>
                  LET rem == TrimmedAfter(line, SepArrow)
                  IN  /\ d.base = IF TrimmedBefore(line, SepArrow) # <<>>
                                  THEN TrimmedBefore(line, SepArrow)
                                  ELSE FormOf(rem)
                      /\ d.derived_form = FormOf(rem)
                      /\ d.gloss = GlossOf(rem)

\* a line "base -> derived = gloss" with all three parts filled was parsed
C6_Witness ==
    /\ MorphologyReturned
    /\ \E k \in 1..Len(derived) :
        /\ k <= Len(KeptLines(derived_edit))
        /\ Has(KeptLines(derived_edit)[k], SepArrow)
        /\ TrimmedBefore(KeptLines(derived_edit)[k], SepArrow) # <<>>
        /\ derived[k].base # <<>>
        /\ derived[k].derived_form # <<>>
        /\ derived[k].gloss # <<>>

\* C7 as stated: for every parsed line without '->', base equals derived_form
\* (the line without its '= gloss' part); and the base falls back to the
\* derived form only then: with a '->' the base is the text before it.
C7_Original ==
    MorphologyReturned =>
      LET kept == KeptLines(derived_edit)
      IN
        /\ Len(derived) = Len(kept)
        /\ \A k \in 1..Len(kept) :
            LET line == kept[k]
                d == derived[k]
            IN  IF Has(line, SepArrow)
                THEN d.base = TrimmedBefore(line, SepArrow)
                ELSE /\ d.derived_form = FormOf(line)
                     /\ d.base = d.derived_form

\* C7 amended: for every parsed line without '->', base equals derived_form
\* (the line without its '= gloss' part); with a '->' the base is the text
\* before it unless that text is empty, in which case the base falls back
\* to the derived form as well.
C7_FallbackToSelf ==
    MorphologyReturned =>
      LET kept == KeptLines(derived_edit)
      IN
        /\ Len(derived) = Len(kept)
        /\ \A k \in 1..Len(kept) :
            LET line == kept[k]
                d == derived[k]
            IN  IF Has(line, SepArrow)
                THEN IF TrimmedBefore(line, SepArrow) # <<>>
                     THEN d.base = TrimmedBefore(line, SepArrow)
                     ELSE d.base = d.derived_form
                ELSE /\ d.derived_form = FormOf(line)
                     /\ d.base = d.derived_form

\* a line "derived = gloss" without arrow was parsed, and the base is the
\* derived form
C7_Witness ==
    /\ MorphologyReturned
    /\ \E k \in 1..Len(derived) :
        /\ k <= Len(KeptLines(derived_edit))
        /\ ~Has(KeptLines(derived_edit)[k], SepArrow)
        /\ derived[k].gloss # <<>>
        /\ derived[k].base # <<>>
        /\ derived[k].base = derived[k].derived_form

\* C8: one AffixDefinition per parsed line, in input order; with '=' in the
\* line, label and description are the trimmed sides of the first '=' (even
\* after an earlier ':'); else with ':', the trimmed sides of the first ':';
\* else label is the whole line and description is ''.
C8_AffixLine ==
    MorphologyReturned =>
      LET kept == KeptLines(affix_edit)
      IN
        /\ Len(affixes) = Len(kept)
        /\ \A k \in 1..Len(kept) :
            LET line == kept[k]
                x == affixes[k]
            IN  IF Has(line, SepEq)
                THEN /\ x.label = TrimmedBefore(line, SepEq)
                     /\ x.description = TrimmedAfter(line, SepEq)
                ELSE IF Has(line, SepColon)
                     THEN /\ x.label = TrimmedBefore(line, SepColon)
                          /\ x.description = TrimmedAfter(line, SepColon)
                     ELSE /\ x.label = line
                          /\ x.description = <<>>

\* a line with a ':' before its '=' was parsed: the ':' stays in the label
C8_Witness ==
    /\ MorphologyReturned
    /\ \E k \in 1..Len(affixes) :
        /\ k <= Len(KeptLines(affix_edit))
        /\ Has(KeptLines(affix_edit)[k], SepEq)
        /\ Has(affixes[k].label, SepColon)
        /\ affixes[k].description # <<>>

----------------------------------------------------------------------------
(* Claims about PhonologyPage._generate_clusters *)

ClustersReturned == "clusters" \in returned

\* a < b in lexicographic order of code points
LexLess(a, b) ==
    \E k \in 1..Len(b) :
        /\ \A i \in 1..(k - 1) : i <= Len(a) /\ a[i] = b[i]
        /\ \/ k = Len(a) + 1
           \/ k <= Len(a) /\ a[k] < b[k]

Symbols == {consonants[i] : i \in 1..Len(consonants)}

\* C9: for n pairwise distinct consonant symbols of the chart (one or two
\* characters long), the generator returns exactly min(200, n*(n-1))
\* strings, all pairwise distinct.
C9_ClusterCount ==
    ClustersReturned =>
      LET n == Len(consonants)
          pairs == n * (n - 1)
      IN  /\ Len(clusters) = IF pairs < limit THEN pairs ELSE limit
          /\ \A i, j \in 1..Len(clusters) : i # j => clusters[i] # clusters[j]

\* 15 consonants, one of them two characters long, ran into the cap
C9_Witness ==
    /\ ClustersReturned
    /\ Len(consonants) = 15
    /\ \E x \in Symbols : Len(x) = 2
    /\ Len(clusters) = limit

\* C10: the returned list is in strictly ascending lexicographic order,
\* every returned string is first+second for two input symbols with
\* first # second, and none is x+x for an input symbol x.
C10_SortedDistinctPairs ==
    ClustersReturned =>
      /\ \A i \in 1..(Len(clusters) - 1) : LexLess(clusters[i], clusters[i + 1])
      /\ \A i \in 1..Len(clusters) :
            /\ \E first, second \in Symbols :
                  first # second /\ clusters[i] = first \o second
            /\ \A x \in Symbols : clusters[i] # x \o x

\* clusters were generated from a letter and two two-character symbols that
\* start with it
C10_Witness ==
    /\ ClustersReturned
    /\ Len(consonants) = 3
    /\ Len(clusters) = 6
    /\ \E x, y, z \in Symbols :
          /\ Len(x) = 1 /\ Len(y) = 2 /\ Len(z) = 2 /\ y # z
          /\ y[1] = x[1] /\ z[1] = x[1]

----------------------------------------------------------------------------
(* CustomStressPattern (src/src/core/language.py)                          *)

\* most syllables a foot of the checked patterns is given
MaxFootSize == 5

FootDirection == {"LEFT_TO_RIGHT", "RIGHT_TO_LEFT"}
MainStressPosition == {"LEFT_MOST", "RIGHT_MOST"}

CustomStressPattern(foot_size, foot_direction, stressed_syllable_in_foot, main_stress_position) ==
    [foot_size |-> foot_size,
     foot_direction |-> foot_direction,
     stressed_syllable_in_foot |-> stressed_syllable_in_foot,
     main_stress_position |-> main_stress_position]

ValueError(message) == [exception |-> "ValueError", message |-> message]

\* validate with the upper limit of the stressed syllable off by one
validate_exclusiveLimit(self) ==
    IF self.foot_size \notin {2, 3}
    THEN Some(ValueError("Foot size must be either 2 or 3 syllables."))
    ELSE IF \/ self.stressed_syllable_in_foot < 1
            \/ self.stressed_syllable_in_foot >= self.foot_size
    THEN Some(ValueError("Stressed syllable must fall within the foot size."))
    ELSE None

\* CustomStressPattern.validate: the exception it raises, None when it
\* returns
validate(self) ==
    IF self.foot_size \notin {2, 3}
    THEN Some(ValueError("Foot size must be either 2 or 3 syllables."))
    ELSE IF \/ self.stressed_syllable_in_foot < 1
            \/ self.stressed_syllable_in_foot > self.foot_size
    THEN Some(ValueError("Stressed syllable must fall within the foot size."))
    ELSE None

\* the patterns of the bounded model: any small integers in the two counts
CustomStressPatterns ==
    {CustomStressPattern(size, direction, stressed, position) :
        size \in -1..MaxFootSize, direction \in FootDirection,
        stressed \in -1..(MaxFootSize + 1), position \in MainStressPosition}

----------------------------------------------------------------------------
(* Specification of a call of validate on a pattern                        *)

InitStress ==
    /\ custom_pattern \in CustomStressPatterns
    /\ returned = {}
    /\ ParsersIdle /\ NameIdle /\ WindowIdle /\ HeapIdle /\ DictionaryIdle
    /\ CallIdle /\ ConfigIdle /\ TabsIdle

CustomStressPattern_validate ==
    /\ "validate" \notin returned
    /\ raised' = validate(custom_pattern)
    /\ returned' = returned \cup {"validate"}
    /\ UNCHANGED <<custom_pattern, message_box, handler>>
    /\ UNCHANGED <<parser_vars, name_vars, window_vars, heap_vars,
                   dictionary_vars, config_vars, tab_vars>>

NextStress == CustomStressPattern_validate

SpecStress == InitStress /\ [][NextStress]_vars

ValidateReturned == "validate" \in returned

\* C11: validate() fails with a ValueError exactly when foot_size is not 2
\* or 3, or stressed_syllable_in_foot is below 1 or above foot_size, and
\* otherwise returns; it never changes a field of the pattern.
C11_ValidateExactly ==
    /\ [](ValidateReturned =>
            LET invalid ==
                    \/ custom_pattern.foot_size # 2 /\ custom_pattern.foot_size # 3
                    \/ custom_pattern.stressed_syllable_in_foot < 1
                    \/ custom_pattern.stressed_syllable_in_foot
                           > custom_pattern.foot_size
            IN  /\ invalid => raised # None /\ raised[1].exception = "ValueError"
                /\ ~invalid => raised = None)
    /\ [][custom_pattern' = custom_pattern]_vars

\* a three-syllable foot stressed on its last syllable has been validated
C11_Witness ==
    /\ ValidateReturned
    /\ custom_pattern.foot_size = 3
    /\ custom_pattern.stressed_syllable_in_foot = 3
    /\ raised = None

----------------------------------------------------------------------------
(* The data model of a language (src/src/core/language.py)                 *)

\* longest name and generated name of the profiles whose display name is read
MaxNameLen == 2

StressPattern ==
    {"NO_FIXED", "INITIAL", "SECOND", "ANTEPENULTIMATE", "PENULTIMATE",
     "ULTIMATE", "NO_STRESS", "CUSTOM_FOOT"}

StressSettings(pattern, custom) ==
    [pattern |-> pattern, custom_pattern |-> custom]

PhonotacticProfile(cons, vowels, onset_clusters, medial_clusters, coda_clusters, illegal_sequences) ==
    [consonants |-> cons,
     vowels |-> vowels,
     onset_clusters |-> onset_clusters,
     medial_clusters |-> medial_clusters,
     coda_clusters |-> coda_clusters,
     illegal_sequences |-> illegal_sequences]

GrammarProfile(word_order, optional_parts_of_speech, notes) ==
    [word_order |-> word_order,
     optional_parts_of_speech |-> optional_parts_of_speech,
     notes |-> notes]

\* a LanguageProfile; name and generated_name are Optional[str], lexicon is
\* the identity of its list of LexiconEntry (see lists)
LanguageProfile(identifier, name, generated_name, phonotactics, stress, lexicon, affix_list, derived_words, grammar) ==
    [identifier |-> identifier,
     name |-> name,
     generated_name |-> generated_name,
     phonotactics |-> phonotactics,
     stress |-> stress,
     lexicon |-> lexicon,
     affixes |-> affix_list,
     derived_words |-> derived_words,
     grammar |-> grammar]

UnnamedLanguage ==
    <<85, 110, 110, 97, 109, 101, 100, 32, 76, 97, 110, 103, 117, 97, 103, 101>>

\* Python's truth value of an Optional[str]: None and '' are false
Truthy(value) == value # None /\ value # Some(<<>>)

\* Python's  a or b
Or(a, b) == IF Truthy(a) THEN a ELSE b

\* display_name that prefers the generated name
display_name_generatedFirst(self) ==
    Or(Or(self.generated_name, self.name), Some(UnnamedLanguage))[1]

\* LanguageProfile.display_name
display_name(self) ==
    Or(Or(self.name, self.generated_name), Some(UnnamedLanguage))[1]

\* the names of the bounded model: absent, empty, blank-free short strings
OptionalNames ==
    {None} \cup {Some(s) : s \in StringsUpTo({97, 98}, MaxNameLen)}

----------------------------------------------------------------------------
(* Specification of a read of display_name                                 *)

InitName ==
    /\ \E name \in OptionalNames, generated_name \in OptionalNames :
          profile = Some(LanguageProfile(1, name, generated_name,
                        PhonotacticProfile(<<>>, <<>>, <<>>, <<>>, <<>>, <<>>),
                        StressSettings("NO_FIXED", None), 0, <<>>, <<>>,
                        GrammarProfile("SVO", <<>>, <<>>)))
    /\ shown = None
    /\ returned = {}
    /\ ParsersIdle /\ StressIdle /\ WindowIdle /\ HeapIdle /\ DictionaryIdle
    /\ CallIdle /\ ConfigIdle /\ TabsIdle

LanguageProfile_display_name ==
    /\ "display_name" \notin returned
    /\ shown' = Some(display_name(profile[1]))
    /\ returned' = returned \cup {"display_name"}
    /\ UNCHANGED <<profile>>
    /\ UNCHANGED <<parser_vars, stress_vars, window_vars, heap_vars,
                   dictionary_vars, call_vars, config_vars, tab_vars>>

NextName == LanguageProfile_display_name

SpecName == InitName /\ [][NextName]_vars

DisplayNameReturned == "display_name" \in returned

\* a name or generated name is present when it is neither None nor ''
Present(value) == value # None /\ value[1] # <<>>

\* C15: display_name returns name when a name is present, otherwise
\* generated_name when one is present, otherwise 'Unnamed Language'.
C15_DisplayName ==
    DisplayNameReturned =>
        LET p == profile[1]
        IN  /\ Present(p.name) => shown = p.name
            /\ ~Present(p.name) /\ Present(p.generated_name)
                  => shown = p.generated_name
            /\ ~Present(p.name) /\ ~Present(p.generated_name)
                  => shown = Some(UnnamedLanguage)

\* the display name of a profile with both names present has been read
C15_Witness ==
    /\ DisplayNameReturned
    /\ Present(profile[1].name)
    /\ Present(profile[1].generated_name)
    /\ profile[1].name # profile[1].generated_name
    /\ shown = profile[1].name

----------------------------------------------------------------------------
(* DictionaryWidget (src/src/widgets/dictionary_widget.py)                 *)

\* most entries the dictionary holds when Add Entry is clicked
MaxDictEntries == 3

\* identity of the list DictionaryWidget itself creates for _entries
DictionaryList == 0

DictionaryEntry(word, ipa, pos, definition) ==
    [word |-> word, ipa |-> ipa, pos |-> pos, definition |-> definition]

\* the entries of _load_sample_entries: vala and reni
SampleEntries ==
    <<DictionaryEntry(<<118, 97, 108, 97>>, <<712, 118, 97, 46, 108, 97>>,
                      <<110, 111, 117, 110>>,
                      <<115, 117, 110, 108, 105, 103, 104, 116, 59, 32, 108,
                        105, 116, 101, 114, 97, 108, 32, 108, 105, 103, 104,
                        116, 32, 102, 114, 111, 109, 32, 116, 104, 101, 32,
                        115, 107, 121>>),
      DictionaryEntry(<<114, 101, 110, 105>>, <<712, 114, 101, 46, 110, 105>>,
                      <<118, 101, 114, 98>>,
                      <<116, 111, 32, 115, 112, 101, 97, 107, 32, 119, 105,
                        116, 104, 32, 101, 109, 112, 104, 97, 115, 105, 115,
                        59, 32, 116, 111, 32, 112, 114, 111, 99, 108, 97,
                        105, 109>>)>>

\* the item of pos_input that is current unless the user picks another:
\* 'noun'
PosOptions == {<<110, 111, 117, 110>>}

\* str.lower on the letters A..Z; every other character of the model's
\* alphabets has no lower-case form
Lower(s) == [i \in 1..Len(s) |-> IF s[i] \in 65..90 THEN s[i] + 32 ELSE s[i]]

\* the duplicate test comparing the words as typed
SameWord_caseSensitive(a, b) == a = b

\* entry["word"].lower() == word.lower()
SameWord(a, b) == Lower(a) = Lower(b)

\* the outcome of _add_entry on the list items and the four inputs: the
\* items afterwards, the message box shown, whether an entry was appended
_add_entry(items, word_text, ipa_text, pos_text, definition_text) ==
    LET word == Strip(word_text)
        ipa == Strip(ipa_text)
        pos == Strip(pos_text)
        definition == Strip(definition_text)
    IN  IF word = <<>> \/ ipa = <<>> \/ definition = <<>>
        THEN [items |-> items, message_box |-> Some("Missing Information"),
              added |-> FALSE]
        ELSE IF \E i \in 1..Len(items) : SameWord(items[i].word, word)
        THEN [items |-> items, message_box |-> Some("Duplicate Entry"),
              added |-> FALSE]
        ELSE [items |-> Append(items, DictionaryEntry(word, ipa, pos, definition)),
              message_box |-> None, added |-> TRUE]

\* the largest row of a non-empty set of rows
LastRow(rows) == CHOOSE row \in rows : \A other \in rows : other <= row

\* del items[row], row counted from 0
Del(items, row) ==
    [i \in 1..(Len(items) - 1) |-> IF i <= row THEN items[i] ELSE items[i + 1]]

\* for row in sorted(selected_rows, reverse=True):
\*     if 0 <= row < len(self._entries): del self._entries[row]
RECURSIVE DeleteRows(_, _)
DeleteRows(items, rows) ==
    IF rows = {} THEN items
    ELSE LET row == LastRow(rows)
         IN  DeleteRows(IF 0 <= row /\ row < Len(items)
                           THEN Del(items, row) ELSE items,
                        rows \ {row})

\* _remove_selected that goes on to refresh when nothing is selected
_remove_selected_alwaysRefreshes(items, rows, shown_rows) ==
    [items |-> DeleteRows(items, rows),
     message_box |-> IF rows = {} THEN Some("No Selection") ELSE None,
     table_rows |-> DeleteRows(items, rows)]

\* the outcome of _remove_selected on the list items, the selected rows and
\* the rows on display
_remove_selected(items, rows, shown_rows) ==
    IF rows = {}
    THEN [items |-> items, message_box |-> Some("No Selection"),
          table_rows |-> shown_rows]
    ELSE [items |-> DeleteRows(items, rows), message_box |-> None,
          table_rows |-> DeleteRows(items, rows)]

\* the entries _on_search_changed hands to _refresh_table
_on_search_changed(items, typed) ==
    LET text == Lower(Strip(typed))
        matches(entry) ==
            \/ Contains(Lower(entry.word), text)
            \/ Contains(Lower(entry.definition), text)
    IN  IF text = <<>> THEN items ELSE SelectSeq(items, matches)

\* the selection of the table once _refresh_table has set its row count
StillSelected(rows, row_count) == {row \in rows : row < row_count}

----------------------------------------------------------------------------
(* The handlers of the dictionary tab                                      *)

\* everything the dictionary tab does not touch
outside_dictionary == <<parser_vars, returned, stress_vars, name_vars,
                        window_vars, raised, config_vars, tab_vars>>

\* DictionaryWidget.__init__: an own list holding the sample entries, all of
\* them on display, empty inputs
DictionaryWidget_init ==
    /\ _entries = DictionaryList
    /\ lists = (DictionaryList :> SampleEntries)
    /\ table_rows = SampleEntries
    /\ word_input = <<>> /\ ipa_input = <<>> /\ definition_input = <<>>
    /\ search_input = <<>>
    /\ selected_rows = {}

\* the user types into one of the three inputs of the entry form
DictionaryWidget_word_edited(texts) ==
    /\ \E text \in texts : word_input' = text
    /\ message_box' = None
    /\ handler' = "word_input"
    /\ UNCHANGED <<_entries, lists, table_rows, ipa_input, definition_input,
                   search_input, selected_rows, outside_dictionary>>

DictionaryWidget_ipa_edited(texts) ==
    /\ \E text \in texts : ipa_input' = text
    /\ message_box' = None
    /\ handler' = "ipa_input"
    /\ UNCHANGED <<_entries, lists, table_rows, word_input, definition_input,
                   search_input, selected_rows, outside_dictionary>>

DictionaryWidget_definition_edited(texts) ==
    /\ \E text \in texts : definition_input' = text
    /\ message_box' = None
    /\ handler' = "definition_input"
    /\ UNCHANGED <<_entries, lists, table_rows, word_input, ipa_input,
                   search_input, selected_rows, outside_dictionary>>

\* the user selects rows of the table, among the rows offered
DictionaryWidget_rows_selected(offered) ==
    /\ \E rows \in SUBSET {row \in offered : row < Len(table_rows)} :
          selected_rows' = rows
    /\ message_box' = None
    /\ handler' = "table"
    /\ UNCHANGED <<_entries, lists, table_rows, word_input, ipa_input,
                   definition_input, search_input, outside_dictionary>>

\* search_input.textChanged -> _on_search_changed
DictionaryWidget_on_search_changed(texts) ==
    /\ \E text \in texts \ {search_input} :
          /\ search_input' = text
          /\ table_rows' = _on_search_changed(lists[_entries], text)
    /\ selected_rows' = StillSelected(selected_rows, Len(table_rows'))
    /\ message_box' = None
    /\ handler' = "_on_search_changed"
    /\ UNCHANGED <<_entries, lists, word_input, ipa_input, definition_input,
                   outside_dictionary>>

\* _add_entry that also appends the new entry to the lexicon of the current
\* language
DictionaryWidget_add_entry_writeThrough ==
    /\ Len(lists[_entries]) < MaxDictEntries
    /\ \E pos \in PosOptions :
          LET done == _add_entry(lists[_entries], word_input, ipa_input, pos,
                                 definition_input)
              last == done.items[Len(done.items)]
              kept == [lists EXCEPT ![_entries] = done.items]
          IN  /\ lists' = IF done.added /\ current_language # None
                          THEN [kept EXCEPT ![current_language[1].lexicon] =
                                   Append(@, LexiconEntry(last.word, last.pos,
                                             last.definition, last.ipa))]
                          ELSE kept
              /\ message_box' = done.message_box
              /\ IF done.added
                 THEN /\ table_rows' = done.items
                      /\ selected_rows' =
                            StillSelected(selected_rows, Len(done.items))
                      /\ word_input' = <<>>
                      /\ ipa_input' = <<>>
                      /\ definition_input' = <<>>
                 ELSE UNCHANGED <<table_rows, selected_rows, word_input,
                                  ipa_input, definition_input>>
    /\ handler' = "_add_entry"
    /\ UNCHANGED <<_entries, search_input, outside_dictionary>>

\* add_button.clicked -> _add_entry
DictionaryWidget_add_entry ==
    /\ Len(lists[_entries]) < MaxDictEntries
    /\ \E pos \in PosOptions :
          LET done == _add_entry(lists[_entries], word_input, ipa_input, pos,
                                 definition_input)
          IN  /\ lists' = [lists EXCEPT ![_entries] = done.items]
              /\ message_box' = done.message_box
              /\ IF done.added
                 THEN /\ table_rows' = done.items
                      /\ selected_rows' =
                            StillSelected(selected_rows, Len(done.items))
                      /\ word_input' = <<>>
                      /\ ipa_input' = <<>>
                      /\ definition_input' = <<>>
                 ELSE UNCHANGED <<table_rows, selected_rows, word_input,
                                  ipa_input, definition_input>>
    /\ handler' = "_add_entry"
    /\ UNCHANGED <<_entries, search_input, outside_dictionary>>

\* remove_button.clicked -> _remove_selected
DictionaryWidget_remove_selected ==
    /\ LET done == _remove_selected(lists[_entries], selected_rows, table_rows)
       IN  /\ lists' = [lists EXCEPT ![_entries] = done.items]
           /\ message_box' = done.message_box
           /\ table_rows' = done.table_rows
           /\ selected_rows' = StillSelected(selected_rows, Len(done.table_rows))
    /\ handler' = "_remove_selected"
    /\ UNCHANGED <<_entries, word_input, ipa_input, definition_input,
                   search_input, outside_dictionary>>

----------------------------------------------------------------------------
(* Specification of the dictionary tab on its own                          *)

\* what the user types: a word, the same word in capitals and after a
\* blank, another word; a transcription; a blank and a definition
DictWordTexts == {<<>>, <<97>>, <<65>>, <<32, 97>>, <<98>>}
DictIpaTexts == {<<105>>}
DictDefinitionTexts == {<<32>>, <<100>>}
\* searches: none, one in capitals that matches vala only, one that matches
\* reni only
DictSearchTexts == {<<>>, <<86>>, <<112>>}

InitDictionary ==
    /\ DictionaryWidget_init
    /\ message_box = None
    /\ handler = "__init__"
    /\ raised = None
    /\ returned = {}
    /\ ParsersIdle /\ StressIdle /\ NameIdle /\ WindowIdle /\ ConfigIdle /\ TabsIdle

NextDictionary ==
    \/ DictionaryWidget_word_edited(DictWordTexts)
    \/ DictionaryWidget_ipa_edited(DictIpaTexts)
    \/ DictionaryWidget_definition_edited(DictDefinitionTexts)
    \/ DictionaryWidget_rows_selected(0..MaxDictEntries)
    \/ DictionaryWidget_on_search_changed(DictSearchTexts)
    \/ DictionaryWidget_add_entry
    \/ DictionaryWidget_remove_selected

SpecDictionary == InitDictionary /\ [][NextDictionary]_vars

\* C18: Add Entry never appends an entry whose word equals, ignoring case,
\* the word of an entry already in the dictionary: in that case, and when
\* the word, IPA or definition is empty, the entry list is unchanged;
\* otherwise exactly one entry is appended, at the end.
C18_AddEntry ==
    [][handler' = "_add_entry" =>
          LET before == lists[_entries]
              after == lists'[_entries']
              word == Strip(word_input)
              duplicate ==
                  \E i \in 1..Len(before) :
                      Lower(before[i].word) = Lower(word)
              incomplete ==
                  \/ word = <<>>
                  \/ Strip(ipa_input) = <<>>
                  \/ Strip(definition_input) = <<>>
          IN  IF duplicate \/ incomplete
              THEN after = before
              ELSE /\ Len(after) = Len(before) + 1
                   /\ SubSeq(after, 1, Len(before)) = before
                   /\ after[Len(after)].word = word
                   /\ \A i \in 1..Len(before) :
                         Lower(before[i].word) # Lower(after[Len(after)].word)
    ]_vars

\* Add Entry has refused a complete entry whose word differs from an
\* existing one in case only
C18_Witness ==
    /\ handler = "_add_entry"
    /\ message_box = Some("Duplicate Entry")
    /\ Strip(ipa_input) # <<>> /\ Strip(definition_input) # <<>>
    /\ \E i \in 1..Len(lists[_entries]) :
          /\ lists[_entries][i].word # Strip(word_input)
          /\ Lower(lists[_entries][i].word) = Lower(Strip(word_input))
    /\ \A i \in 1..Len(lists[_entries]) :
          lists[_entries][i].word # Strip(word_input)

\* C19: Remove Selected with no row selected only reports: the entry list
\* and the displayed table rows are unchanged.
C19_RemoveNothing ==
    [][handler' = "_remove_selected" /\ selected_rows = {} =>
          /\ lists'[_entries'] = lists[_entries]
          /\ table_rows' = table_rows
          /\ message_box' = Some("No Selection")
    ]_vars

\* Remove Selected has reported that nothing is selected while a search
\* hides some of the entries
C19_Witness ==
    /\ handler = "_remove_selected"
    /\ message_box = Some("No Selection")
    /\ selected_rows = {}
    /\ Len(table_rows) < Len(lists[_entries])
    /\ table_rows # <<>>

\* C24: with any search text entered, Remove Selected deletes from the entry
\* list exactly the entries displayed in the selected table rows, and no
\* other entry.
C24_RemovesDisplayedEntries ==
    [][handler' = "_remove_selected" /\ selected_rows # {} =>
          LET before == lists[_entries]
              after == lists'[_entries']
              chosen == {table_rows[row + 1] : row \in selected_rows}
              stays(entry) == entry \notin chosen
          IN  after = SelectSeq(before, stays)
    ]_vars

----------------------------------------------------------------------------
(* Config (src/src/core/config.py)                                         *)

\* most elements of a JSON array found in the configuration file
MaxArrayLen == 3

\* d[k] = v on a dict d
Put(d, k, v) == [x \in DOMAIN d \cup {k} |-> IF x = k THEN v ELSE d[x]]

\* the Python values json.load builds: a type tag and what the value holds
\* (the members of a dict are <<key, value>> pairs in file order)
Str(s) == <<"str", s>>
Number(n) == <<"int", n>>
Bool(b) == <<"bool", b>>
NoneValue == <<"NoneType">>
List(elements) == <<"list", elements>>
Dict(members) == <<"dict", members>>

TypeOf(value) == value[1]

TypeError(message) == [exception |-> "TypeError", message |-> message]
JSONDecodeError(message) == [exception |-> "JSONDecodeError", message |-> message]

\* the classes  except Exception  catches, among those raised here
ExceptionSubclasses == {"ValueError", "TypeError", "JSONDecodeError"}

\* the settings Config.__init__ sets: theme, recent_files, auto_save, language
DefaultSettings ==
    (Str(<<116, 104, 101, 109, 101>>) :> Str(<<100, 101, 102, 97, 117, 108, 116>>))
    @@ (Str(<<114, 101, 99, 101, 110, 116, 95, 102, 105, 108, 101, 115>>) :> List(<<>>))
    @@ (Str(<<97, 117, 116, 111, 95, 115, 97, 118, 101>>) :> Bool(TRUE))
    @@ (Str(<<108, 97, 110, 103, 117, 97, 103, 101>>) :> Str(<<101, 110>>))

\* a file whose text is not JSON, and a file holding the JSON text of a value
InvalidText == <<"invalid">>
JsonText(value) == <<"json", value>>

\* json.load on the content of a file
json_load(content) ==
    IF content = InvalidText
    THEN [value |-> NoneValue,
          raised |-> Some(JSONDecodeError("Expecting value"))]
    ELSE [value |-> content[2], raised |-> None]

\* the items dict.update finds in an element of a sequence: the elements of
\* a list, the characters of a str, the keys of a dict; None when the
\* element cannot be iterated
ItemsOf(element) ==
    CASE TypeOf(element) = "list" -> Some(element[2])
      [] TypeOf(element) = "str" ->
            Some([i \in 1..Len(element[2]) |-> Str(<<element[2][i]>>)])
      [] TypeOf(element) = "dict" ->
            Some([i \in 1..Len(element[2]) |-> element[2][i][1]])
      [] OTHER -> None

Hashable(value) == TypeOf(value) \notin {"list", "dict"}

\* dict.update(d, sequence): the pairs are stored one by one, and the
\* first element that is no pair raises with the earlier pairs stored
RECURSIVE UpdateFromSequence(_, _, _)
UpdateFromSequence(d, elements, i) ==
    IF i > Len(elements) THEN [settings |-> d, raised |-> None]
    ELSE LET items == ItemsOf(elements[i])
         IN  IF items = None
             THEN [settings |-> d,
                   raised |-> Some(TypeError("cannot convert dictionary update sequence element to a sequence"))]
             ELSE IF Len(items[1]) # 2
             THEN [settings |-> d,
                   raised |-> Some(ValueError("dictionary update sequence element has the wrong length; 2 is required"))]
             ELSE IF ~Hashable(items[1][1])
             THEN [settings |-> d,
                   raised |-> Some(TypeError("unhashable type"))]
             ELSE UpdateFromSequence(Put(d, items[1][1], items[1][2]),
                                     elements, i + 1)

\* dict.update(d, mapping)
RECURSIVE UpdateFromDict(_, _, _)
UpdateFromDict(d, members, i) ==
    IF i > Len(members) THEN [settings |-> d, raised |-> None]
    ELSE UpdateFromDict(Put(d, members[i][1], members[i][2]), members, i + 1)

\* self.settings.update(value)
update(d, value) ==
    CASE TypeOf(value) = "dict" -> UpdateFromDict(d, value[2], 1)
      [] TypeOf(value) = "list" -> UpdateFromSequence(d, value[2], 1)
      [] TypeOf(value) = "str" ->
            UpdateFromSequence(d, ItemsOf(value)[1], 1)
      [] OTHER ->
            [settings |-> d, raised |-> Some(TypeError("object is not iterable"))]

\* what  except Exception  lets escape
Escaping(exception) ==
    IF exception # None /\ exception[1].exception \in ExceptionSubclasses
    THEN None ELSE exception

\* Config.load: the settings afterwards and the exception it lets escape
load(d, file) ==
    IF file = None THEN [settings |-> d, raised |-> None]
    ELSE LET parsed == json_load(file[1])
         IN  IF parsed.raised # None
             THEN [settings |-> d, raised |-> Escaping(parsed.raised)]
             ELSE LET updated == update(d, parsed.value)
                  IN  [settings |-> updated.settings,
                       raised |-> Escaping(updated.raised)]

\* elements of the arrays of the bounded model: the pair ["theme", "dark"],
\* the string "ab", the number 5, the one-element list ["theme"], and the
\* pair [[], 5] whose key is a list
ConfigElements ==
    {List(<<Str(<<116, 104, 101, 109, 101>>), Str(<<100, 97, 114, 107>>)>>),
     Str(<<97, 98>>),
     Number(5),
     List(<<Str(<<116, 104, 101, 109, 101>>)>>),
     List(<<List(<<>>), Number(5)>>)}

\* the JSON values of the bounded model: arrays of these elements, some
\* objects, some scalars
ConfigValues ==
    {List(elements) : elements \in StringsUpTo(ConfigElements, MaxArrayLen)}
    \cup {Dict(<<>>),
          Dict(<< <<Str(<<116, 104, 101, 109, 101>>), Str(<<100, 97, 114, 107>>)>> >>),
          Dict(<< <<Str(<<116, 104, 101, 109, 101>>), Str(<<100, 97, 114, 107>>)>>,
                  <<Str(<<97, 117, 116, 111, 95, 115, 97, 118, 101>>), Bool(FALSE)>> >>),
          Dict(<< <<Str(<<97, 98>>), Number(5)>> >>)}
    \cup {Str(<<>>), Str(<<97, 98>>), Number(5), Bool(TRUE), NoneValue}

\* no file, a file that is not JSON, a file holding one of the values
ConfigFiles ==
    {None} \cup {Some(InvalidText)}
    \cup {Some(JsonText(value)) : value \in ConfigValues}

----------------------------------------------------------------------------
(* Specification of Config.load at start-up                                *)

InitConfig ==
    /\ settings = DefaultSettings
    /\ config_file \in ConfigFiles
    /\ fresh_settings = None
    /\ raised = None
    /\ message_box = None
    /\ handler = None
    /\ returned = {}
    /\ ParsersIdle /\ StressIdle /\ NameIdle /\ WindowIdle /\ HeapIdle
    /\ DictionaryIdle /\ TabsIdle

Config_load ==
    /\ "load" \notin returned
    /\ LET done == load(settings, config_file)
       IN  /\ settings' = done.settings
           /\ raised' = done.raised
    /\ returned' = returned \cup {"load"}
    /\ UNCHANGED <<config_file, fresh_settings, message_box, handler>>
    /\ UNCHANGED <<parser_vars, stress_vars, name_vars, window_vars,
                   heap_vars, dictionary_vars, tab_vars>>

NextConfig == Config_load

SpecConfig == InitConfig /\ [][NextConfig]_vars

LoadReturned == "load" \in returned

\* the file exists and holds a JSON object
HoldsObject(file) ==
    /\ file # None
    /\ file[1] # InvalidText
    /\ TypeOf(file[1][2]) = "dict"

\* C20: load with no file leaves the defaults; load with a malformed file
\* (content that is not a valid JSON object) raises nothing and leaves every
\* setting exactly as it was before the call, with no partial update.
C20_MalformedKeepsDefaults ==
    LoadReturned =>
        /\ raised = None
        /\ ~HoldsObject(config_file) => settings = DefaultSettings

----------------------------------------------------------------------------
(* TranslatorWidget (src/src/widgets/translator_widget.py)                 *)

TranslatorEntry(source, target, notes) ==
    [source |-> source, target |-> target, notes |-> notes]

\* _default_lexicon: sunlight-vala, speak-reni, clear-lisa, the-sa
DefaultLexicon ==
    <<TranslatorEntry(<<115, 117, 110, 108, 105, 103, 104, 116>>,
                      <<118, 97, 108, 97>>,
                      <<77, 97, 116, 99, 104, 101, 115, 32, 100, 105, 99, 116,
                        105, 111, 110, 97, 114, 121, 32, 101, 110, 116, 114,
                        121>>),
      TranslatorEntry(<<115, 112, 101, 97, 107>>,
                      <<114, 101, 110, 105>>,
                      <<86, 101, 114, 98, 32, 102, 111, 114, 109, 59, 32, 110,
                        101, 101, 100, 115, 32, 99, 111, 110, 106, 117, 103,
                        97, 116, 105, 111, 110, 32, 114, 117, 108, 101, 115>>),
      TranslatorEntry(<<99, 108, 101, 97, 114>>,
                      <<108, 105, 115, 97>>,
                      <<65, 100, 106, 101, 99, 116, 105, 118, 101, 32, 109,
                        101, 97, 110, 105, 110, 103, 32, 99, 114, 105, 115,
                        112, 47, 99, 108, 101, 97, 114>>),
      TranslatorEntry(<<116, 104, 101>>,
                      <<115, 97>>,
                      <<68, 101, 102, 105, 110, 105, 116, 101, 32, 97, 114,
                        116, 105, 99, 108, 101, 32, 112, 108, 97, 99, 101,
                        104, 111, 108, 100, 101, 114>>)>>

\* ", ".join(filter(None, parts))
RECURSIVE JoinNonEmpty(_)
JoinNonEmpty(parts) ==
    IF parts = <<>> THEN <<>>
    ELSE LET rest == JoinNonEmpty(Tail(parts))
         IN  IF Head(parts) = <<>> THEN rest
             ELSE IF rest = <<>> THEN Head(parts)
             ELSE Head(parts) \o <<44, 32>> \o rest

\* the list TranslatorWidget.load_lexicon builds from a profile's lexicon
load_lexicon(lexicon_entries) ==
    [i \in 1..Len(lexicon_entries) |->
        LET entry == lexicon_entries[i]
            source_display ==
                IF entry.english # <<>> THEN entry.english ELSE entry.conlang
            notes_components ==
                IF entry.ipa # <<>> THEN <<entry.part_of_speech, entry.ipa>>
                ELSE <<entry.part_of_speech>>
            notes == JoinNonEmpty(notes_components)
        IN  TranslatorEntry(source_display, entry.conlang,
                IF notes # <<>> THEN notes
                ELSE <<70, 114, 111, 109, 32, 112, 114, 111, 102, 105, 108,
                       101>>)]

----------------------------------------------------------------------------
(* The pages of the wizard (src/src/ui/language_creation.py)               *)

\* most languages created in one session
MaxLanguages == 2

\* the values str(uuid.uuid4()) can take
Identifiers == 1..MaxLanguages

\* the elements of a sequence
Range(s) == {s[i] : i \in 1..Len(s)}

\* a uuid4 that can repeat an identifier it has returned before
uuid4_repeating(before) == Identifiers

\* the identifiers uuid.uuid4() can return after those in before: a random
\* 122-bit value, taken never to repeat
uuid4(before) == Identifiers \ Range(before)

\* the data of the items _sync_stress_syllable_choices puts into
\* stressed_syllable_combo: 1..foot_size
stress_syllable_choices(foot_size_index) ==
    LET foot_size == IF foot_size_index = 0 THEN 2 ELSE 3
    IN  [idx \in 1..foot_size |-> idx]

\* stack.count(): the pages added to the stack of the wizard
PageCount == 4

\* _update_buttons that leaves Next enabled on every page
_update_buttons_nextAlways(self) ==
    [self EXCEPT !.back_enabled = self.page_index > 0,
                 !.next_enabled = TRUE,
                 !.finish_enabled = self.page_index = PageCount - 1]

\* LanguageCreationWizard._update_buttons
_update_buttons(self) ==
    LET current_index == self.page_index
    IN  [self EXCEPT !.back_enabled = current_index > 0,
                     !.next_enabled = ~(current_index = PageCount - 1),
                     !.finish_enabled = current_index = PageCount - 1]

\* a wizard as __init__ leaves it: nothing checked, the position lists
\* empty, the first item of each combo box current, the first page shown,
\* the buttons as _update_buttons sets them, no profile, dialog running
NewWizard ==
    _update_buttons(
       [consonant_checked |-> {},
        vowel_checked |-> {},
        onset_list |-> <<>>,
        medial_list |-> <<>>,
        coda_list |-> <<>>,
        stress_pattern |-> "NO_FIXED",
        foot_size_index |-> 0,
        foot_direction_index |-> 0,
        stressed_items |-> stress_syllable_choices(0),
        stressed_index |-> 0,
        main_stress_index |-> 0,
        page_index |-> 0,
        back_enabled |-> TRUE,
        next_enabled |-> TRUE,
        finish_enabled |-> TRUE,
        _language_profile |-> None,
        _tagline |-> <<>>,
        result |-> "Running"])

\* _checked_items: the texts of the checked items of a position list
_checked_items(widget) ==
    LET checked(item) == item.checked
        chosen == SelectSeq(widget, checked)
    IN  [idx \in 1..Len(chosen) |-> chosen[idx].text]

\* _rebuild_position_list: one item per option, checked when the list held
\* a checked item of that text (the last one of that text decides)
_rebuild_position_list(widget, options) ==
    LET existing_states(option) ==
            LET held == {index \in 1..Len(widget) : widget[index].text = option}
            IN  IF held = {} THEN FALSE
                ELSE widget[CHOOSE index \in held :
                               \A other \in held : other <= index].checked
    IN  [index \in 1..Len(options) |->
            [text |-> options[index],
             checked |-> existing_states(options[index])]]

\* PhonologyPage._update_position_lists
_update_position_lists(self) ==
    LET cons == selected_symbols(self.consonant_checked)
        options == cons \o _generate_clusters(cons)
    IN  [self EXCEPT
           !.onset_list = _rebuild_position_list(self.onset_list, options),
           !.medial_list = _rebuild_position_list(self.medial_list, options),
           !.coda_list = _rebuild_position_list(self.coda_list, options)]

\* the call of the slot _on_inventory_changed(self, _item) with the
\* arguments of the signal: the exception raised and the page afterwards.
\* The parameter _item has no default, a call without it raises TypeError
\* before the body runs
_on_inventory_changed(self, arguments) ==
    IF Len(arguments) # 1
    THEN [raised |-> Some(TypeError("_on_inventory_changed() missing 1 required positional argument: '_item'")),
          self |-> self]
    ELSE [raised |-> None, self |-> _update_position_lists(self)]

\* the inventory test that only looks at the consonants
InventoryError_consonantsOnly(cons, vowels) ==
    IF cons = <<>>
    THEN Some(ValueError("Select at least one consonant for the language."))
    ELSE None

\* the error PhonologyPage.collect_data raises for the two inventories
InventoryError(cons, vowels) ==
    IF cons = <<>>
    THEN Some(ValueError("Select at least one consonant for the language."))
    ELSE IF vowels = <<>>
    THEN Some(ValueError("Select at least one vowel for the language."))
    ELSE None

\* the custom pattern built whatever the stress pattern is
CustomPatternOf_always(page) ==
    Some(CustomStressPattern(
            IF page.foot_size_index = 0 THEN 2 ELSE 3,
            IF page.foot_direction_index = 0
               THEN "LEFT_TO_RIGHT" ELSE "RIGHT_TO_LEFT",
            page.stressed_items[page.stressed_index + 1],
            IF page.main_stress_index = 0 THEN "LEFT_MOST" ELSE "RIGHT_MOST"))

\* the custom pattern PhonologyPage.collect_data builds from the combo boxes
CustomPatternOf(page) ==
    IF page.stress_pattern = "CUSTOM_FOOT"
    THEN Some(CustomStressPattern(
            IF page.foot_size_index = 0 THEN 2 ELSE 3,
            IF page.foot_direction_index = 0
               THEN "LEFT_TO_RIGHT" ELSE "RIGHT_TO_LEFT",
            page.stressed_items[page.stressed_index + 1],
            IF page.main_stress_index = 0 THEN "LEFT_MOST" ELSE "RIGHT_MOST"))
    ELSE None

\* PhonologyPage.collect_data: the exception it raises or the two values it
\* returns; no illegal sequence is typed
PhonologyPage_collect_data(page) ==
    LET cons == selected_symbols(page.consonant_checked)
        vowels == selected_symbols(page.vowel_checked)
        custom == CustomPatternOf(page)
        invalid == IF custom = None THEN None ELSE validate(custom[1])
    IN  IF InventoryError(cons, vowels) # None
        THEN [raised |-> InventoryError(cons, vowels),
              phonotactics |-> None, stress |-> None]
        ELSE IF invalid # None
        THEN [raised |-> invalid, phonotactics |-> None, stress |-> None]
        ELSE [raised |-> None,
              phonotactics |->
                  Some(PhonotacticProfile(cons, vowels,
                          _checked_items(page.onset_list),
                          _checked_items(page.medial_list),
                          _checked_items(page.coda_list), <<>>)),
              stress |-> Some(StressSettings(page.stress_pattern, custom))]

\* two of the thousand names generate_language_name can return: Aralanion
\* and Bellanion
GeneratedNames ==
    {prefix \o <<108, 97>> \o <<110, 105, 111, 110>> :
        prefix \in {<<65, 114, 97>>, <<66, 101, 108>>}}

\* what the user has typed on the lexicon, morphology and grammar pages
Typed(name_text, tagline_text, lexicon_text) ==
    [name_input |-> name_text,
     tagline_input |-> tagline_text,
     lexicon_edit |-> lexicon_text,
     affix_edit |-> <<>>,
     derived_edit |-> <<>>,
     grammar_notes |-> <<>>]

\* accept that closes the dialog although collecting the data failed
accept_closesOnError(self, typed, generated, identifier) ==
    LET phonology == PhonologyPage_collect_data(self)
        stripped == Strip(typed.name_input)
        name == IF stripped # <<>> THEN Some(stripped) ELSE None
        generated_name == IF Truthy(name) THEN None ELSE Some(generated)
    IN  IF phonology.raised # None
        THEN [self |-> [self EXCEPT !.result = "Accepted"],
              warning |-> Some("Incomplete Information"),
              lexicon_items |-> <<>>]
        ELSE [self |->
                 [self EXCEPT
                    !._tagline = Strip(typed.tagline_input),
                    !._language_profile =
                        Some(LanguageProfile(identifier, name, generated_name,
                                phonology.phonotactics[1], phonology.stress[1],
                                identifier,
                                CollectAffixes(typed.affix_edit),
                                CollectDerived(typed.derived_edit),
                                GrammarProfile("SOV", <<>>,
                                               Strip(typed.grammar_notes)))),
                    !.result = "Accepted"],
              warning |-> None,
              lexicon_items |-> CollectLexicon(typed.lexicon_edit)]

\* LanguageCreationWizard.accept: the wizard afterwards, the warning shown,
\* and the items of the list that becomes the profile's lexicon (the list
\* gets the identity of the profile's identifier)
accept(self, typed, generated, identifier) ==
    LET phonology == PhonologyPage_collect_data(self)
        stripped == Strip(typed.name_input)
        name == IF stripped # <<>> THEN Some(stripped) ELSE None
        generated_name == IF Truthy(name) THEN None ELSE Some(generated)
    IN  IF phonology.raised # None
        THEN [self |-> self,
              warning |-> Some("Incomplete Information"),
              lexicon_items |-> <<>>]
        ELSE [self |->
                 [self EXCEPT
                    !._tagline = Strip(typed.tagline_input),
                    !._language_profile =
                        Some(LanguageProfile(identifier, name, generated_name,
                                phonology.phonotactics[1], phonology.stress[1],
                                identifier,
                                CollectAffixes(typed.affix_edit),
                                CollectDerived(typed.derived_edit),
                                GrammarProfile("SOV", <<>>,
                                               Strip(typed.grammar_notes)))),
                    !.result = "Accepted"],
              warning |-> None,
              lexicon_items |-> CollectLexicon(typed.lexicon_edit)]

----------------------------------------------------------------------------
(* MainWindow (src/src/ui/main_window.py)                                  *)

\* DictionaryWidget.load_from_language on the list lexicon of the heap: the
\* list _entries is bound to afterwards (a new one, which takes the place
\* of the widget's previous list) and its items
load_from_language(heap, lexicon) ==
    [list |-> DictionaryList,
     items |-> [i \in 1..Len(heap[lexicon]) |->
                  DictionaryEntry(heap[lexicon][i].conlang,
                                  heap[lexicon][i].ipa,
                                  heap[lexicon][i].part_of_speech,
                                  heap[lexicon][i].english)]]

\* MainWindow._load_language_into_widgets, the lists being heap
_load_language_into_widgets(heap, language) ==
    /\ LET loaded == load_from_language(heap, language.lexicon)
       IN  /\ _entries' = loaded.list
           /\ lists' = Put(heap, loaded.list, loaded.items)
           /\ table_rows' = loaded.items
           /\ selected_rows' = StillSelected(selected_rows, Len(loaded.items))
    /\ translator_lexicon' = load_lexicon(heap[language.lexicon])
    /\ grammar_notes' = language.grammar.notes

\* MainWindow.set_current_language, the lists being heap
set_current_language(heap, language, tagline) ==
    /\ current_language' = Some(language)
    /\ languages_store' = Put(languages_store, language.identifier, language)
    /\ language_taglines' =
          IF tagline # <<>>
          THEN Put(language_taglines, language.identifier, tagline)
          ELSE language_taglines
    /\ stack' = "tabs"
    /\ _load_language_into_widgets(heap, language)

\* MainWindow.__init__: no language, empty stores, the widgets as built
MainWindow_init ==
    /\ current_language = None
    /\ languages_store = <<>>
    /\ language_taglines = <<>>
    /\ issued = <<>>
    /\ stack = "start_screen"
    /\ DictionaryWidget_init
    /\ translator_lexicon = DefaultLexicon
    /\ grammar_notes = <<>>
    /\ message_box = None
    /\ handler = "__init__"
    /\ raised = None

\* what the wizard and the main window do not touch
outside_window == <<parser_vars, returned, stress_vars, name_vars, raised,
                    config_vars, tab_vars>>
\* the entry form and the search box of the dictionary tab
dictionary_inputs == <<word_input, ipa_input, definition_input, search_input>>
\* what changes when a language is loaded into the main window
loaded_vars == <<current_language, languages_store, language_taglines,
                 _entries, lists, table_rows, selected_rows,
                 translator_lexicon, grammar_notes, stack>>

----------------------------------------------------------------------------
(* The handlers that run while the wizard executes                         *)

Running == wizard # None /\ wizard[1].result = "Running"

\* the page of that index is the current widget of the wizard's stack
Shown(index) == wizard[1].page_index = index

\* the custom-foot form is visible
CustomVisible == wizard[1].stress_pattern = "CUSTOM_FOOT"

\* what every handler of a page leaves alone
outside_pages == <<issued, loaded_vars, dictionary_inputs, outside_window>>

\* a check box of the consonant chart is toggled: stateChanged emits
\* selection_changed, a signal without arguments, to which the slot
\* _on_inventory_changed is connected. PyQt hands the exception of the slot
\* to sys.excepthook; the run goes on when the hook returns
IPAConsonantChart_toggled(symbols) ==
    /\ Running /\ Shown(0)
    /\ \E symbol \in symbols :
          LET toggled == [wizard[1] EXCEPT !.consonant_checked =
                            IF symbol \in @ THEN @ \ {symbol}
                            ELSE @ \cup {symbol}]
          IN  wizard' = Some(_on_inventory_changed(toggled, <<>>).self)
    /\ message_box' = None
    /\ handler' = "consonant_chart"
    /\ UNCHANGED outside_pages

\* a check box of the vowel chart is toggled
IPAVowelChart_toggled(symbols) ==
    /\ Running /\ Shown(0)
    /\ \E symbol \in symbols :
          wizard' = Some([wizard[1] EXCEPT !.vowel_checked =
                            IF symbol \in @ THEN @ \ {symbol}
                            ELSE @ \cup {symbol}])
    /\ message_box' = None
    /\ handler' = "vowel_chart"
    /\ UNCHANGED outside_pages

\* stress_combo.currentIndexChanged -> _on_stress_changed
PhonologyPage_on_stress_changed ==
    /\ Running /\ Shown(0)
    /\ \E pattern \in StressPattern \ {wizard[1].stress_pattern} :
          wizard' = Some([wizard[1] EXCEPT !.stress_pattern = pattern])
    /\ message_box' = None
    /\ handler' = "_on_stress_changed"
    /\ UNCHANGED outside_pages

\* a change of the foot size that leaves the stressed-syllable combo as it
\* was
PhonologyPage_sync_stress_syllable_choices_staleItems ==
    /\ Running /\ Shown(0) /\ CustomVisible
    /\ \E index \in {0, 1} \ {wizard[1].foot_size_index} :
          wizard' = Some([wizard[1] EXCEPT !.foot_size_index = index])
    /\ message_box' = None
    /\ handler' = "_sync_stress_syllable_choices"
    /\ UNCHANGED outside_pages

\* foot_size_combo.currentIndexChanged -> _sync_stress_syllable_choices:
\* the stressed-syllable combo is cleared and refilled, its first item
\* becomes current
PhonologyPage_sync_stress_syllable_choices ==
    /\ Running /\ Shown(0) /\ CustomVisible
    /\ \E index \in {0, 1} \ {wizard[1].foot_size_index} :
          wizard' = Some([wizard[1] EXCEPT
                            !.foot_size_index = index,
                            !.stressed_items = stress_syllable_choices(index),
                            !.stressed_index = 0])
    /\ message_box' = None
    /\ handler' = "_sync_stress_syllable_choices"
    /\ UNCHANGED outside_pages

\* the user picks an item of stressed_syllable_combo
PhonologyPage_stressed_syllable_picked ==
    /\ Running /\ Shown(0) /\ CustomVisible
    /\ \E index \in 0..2 :
          /\ index < Len(wizard[1].stressed_items)
          /\ index # wizard[1].stressed_index
          /\ wizard' = Some([wizard[1] EXCEPT !.stressed_index = index])
    /\ message_box' = None
    /\ handler' = "stressed_syllable_combo"
    /\ UNCHANGED outside_pages

\* the user picks the other item of foot_direction_combo
PhonologyPage_foot_direction_picked ==
    /\ Running /\ Shown(0) /\ CustomVisible
    /\ wizard' = Some([wizard[1] EXCEPT !.foot_direction_index = 1 - @])
    /\ message_box' = None
    /\ handler' = "foot_direction_combo"
    /\ UNCHANGED outside_pages

\* the user picks the other item of main_stress_combo
PhonologyPage_main_stress_picked ==
    /\ Running /\ Shown(0) /\ CustomVisible
    /\ wizard' = Some([wizard[1] EXCEPT !.main_stress_index = 1 - @])
    /\ message_box' = None
    /\ handler' = "main_stress_combo"
    /\ UNCHANGED outside_pages

\* finish_button.clicked -> accept; when the dialog is accepted exec()
\* returns and launch_language_creation goes on to set_current_language
LanguageCreationWizard_accept(typed_texts) ==
    /\ Running /\ wizard[1].finish_enabled
    /\ Len(issued) < MaxLanguages
    /\ \E typed \in typed_texts, generated \in GeneratedNames,
          identifier \in uuid4(issued) :
          LET done == accept(wizard[1], typed, generated, identifier)
          IN  /\ wizard' = Some(done.self)
              /\ message_box' = done.warning
              /\ IF done.self.result = "Accepted"
                 THEN /\ issued' = Append(issued, identifier)
                      /\ IF done.self._language_profile # None
                         THEN set_current_language(
                                 Put(lists, identifier, done.lexicon_items),
                                 done.self._language_profile[1],
                                 done.self._tagline)
                         ELSE UNCHANGED loaded_vars
                 ELSE UNCHANGED <<issued, loaded_vars>>
    /\ handler' = "accept"
    /\ UNCHANGED <<dictionary_inputs, outside_window>>

\* back_button.clicked -> _go_back
LanguageCreationWizard_go_back ==
    /\ Running /\ wizard[1].back_enabled
    /\ LET index == wizard[1].page_index
       IN  wizard' = IF index > 0
                     THEN Some(_update_buttons(
                                  [wizard[1] EXCEPT !.page_index = index - 1]))
                     ELSE wizard
    /\ message_box' = None
    /\ handler' = "_go_back"
    /\ UNCHANGED outside_pages

\* next_button.clicked -> _go_next
LanguageCreationWizard_go_next ==
    /\ Running /\ wizard[1].next_enabled
    /\ LET index == wizard[1].page_index
       IN  wizard' = IF index < PageCount - 1
                     THEN Some(_update_buttons(
                                  [wizard[1] EXCEPT !.page_index = index + 1]))
                     ELSE wizard
    /\ message_box' = None
    /\ handler' = "_go_next"
    /\ UNCHANGED outside_pages

\* cancel_button.clicked -> reject: exec() returns Rejected
LanguageCreationWizard_reject ==
    /\ Running
    /\ wizard' = Some([wizard[1] EXCEPT !.result = "Rejected"])
    /\ message_box' = None
    /\ handler' = "reject"
    /\ UNCHANGED outside_pages

----------------------------------------------------------------------------
(* Specification of one execution of the wizard, launched from a new main  *)
(* window                                                                  *)

\* the check boxes used: p and t of the consonant chart, a of the vowel chart
WizardConsonants == {<<112>>, <<116>>}
WizardVowels == {<<97>>}

\* what is typed: a blank name or ' a'; no tagline or 't'; no lexicon or
\* the line 'a=b'
WizardTexts ==
    {Typed(name_text, tagline_text, lexicon_text) :
        name_text \in {<<32>>, <<32, 97>>},
        tagline_text \in {<<>>, <<116>>},
        lexicon_text \in {<<>>, <<97, 61, 98>>}}

InitWizard ==
    /\ MainWindow_init
    /\ wizard = Some(NewWizard)
    /\ returned = {}
    /\ ParsersIdle /\ StressIdle /\ NameIdle /\ ConfigIdle /\ TabsIdle

NextWizard ==
    \/ IPAConsonantChart_toggled(WizardConsonants)
    \/ IPAVowelChart_toggled(WizardVowels)
    \/ PhonologyPage_on_stress_changed
    \/ PhonologyPage_sync_stress_syllable_choices
    \/ PhonologyPage_stressed_syllable_picked
    \/ PhonologyPage_foot_direction_picked
    \/ PhonologyPage_main_stress_picked
    \/ LanguageCreationWizard_go_back
    \/ LanguageCreationWizard_go_next
    \/ LanguageCreationWizard_accept(WizardTexts)
    \/ LanguageCreationWizard_reject

SpecWizard == InitWizard /\ [][NextWizard]_vars

\* every profile within reach: the wizard's result, the current language,
\* the values of the store
ReachableProfiles ==
    (IF wizard # None /\ wizard[1]._language_profile # None
        THEN {wizard[1]._language_profile[1]} ELSE {})
    \cup (IF current_language # None THEN {current_language[1]} ELSE {})
    \cup {languages_store[id] : id \in DOMAIN languages_store}

\* the data of the wizard's phonology page cannot be collected: no
\* consonant, no vowel, or a custom foot whose stressed syllable is outside
\* the foot
Uncollectable(page) ==
    \/ page.consonant_checked = {}
    \/ page.vowel_checked = {}
    \/ /\ page.stress_pattern = "CUSTOM_FOOT"
       /\ page.stressed_items[page.stressed_index + 1]
             > (IF page.foot_size_index = 0 THEN 2 ELSE 3)

\* C12: when collecting the wizard's data raises a validation error, accept
\* creates no profile and has no side effect: get_language_profile() and
\* get_tagline() keep their values, the dialog is not accepted, and the main
\* window's current_language, languages_store and language_taglines are
\* unchanged.
C12_FailedAccept ==
    [][handler' = "accept" /\ Uncollectable(wizard[1]) =>
          /\ wizard'[1]._language_profile = wizard[1]._language_profile
          /\ wizard'[1]._tagline = wizard[1]._tagline
          /\ wizard'[1].result = "Running"
          /\ current_language' = current_language
          /\ languages_store' = languages_store
          /\ language_taglines' = language_taglines
    ]_vars

\* Finish has been clicked with a consonant but no vowel checked, and the
\* warning has been shown
C12_Witness ==
    /\ handler = "accept"
    /\ message_box = Some("Incomplete Information")
    /\ wizard[1].consonant_checked # {}
    /\ wizard[1].vowel_checked = {}
    /\ wizard[1].result = "Running"
    /\ wizard[1]._language_profile = None

\* C13: no LanguageProfile is ever created with an empty consonant list or
\* an empty vowel list: the wizard's result, current_language and every
\* value of languages_store have both lists non-empty.
C13_InventoriesNonEmpty ==
    \A language \in ReachableProfiles :
        /\ language.phonotactics.consonants # <<>>
        /\ language.phonotactics.vowels # <<>>

\* a profile with two consonants and a vowel has been created and stored
C13_Witness ==
    /\ wizard[1].result = "Accepted"
    /\ \E id \in DOMAIN languages_store :
          /\ Len(languages_store[id].phonotactics.consonants) = 2
          /\ Len(languages_store[id].phonotactics.vowels) = 1
          /\ current_language = Some(languages_store[id])
          /\ wizard[1]._language_profile = Some(languages_store[id])

\* C14: in the StressSettings of every created profile, custom_pattern is
\* present and valid when the pattern is CUSTOM_FOOT, and None for every
\* other pattern.
C14_CustomPatternIffCustomFoot ==
    \A language \in ReachableProfiles :
        LET stress == language.stress
        IN  IF stress.pattern = "CUSTOM_FOOT"
            THEN /\ stress.custom_pattern # None
                 /\ stress.custom_pattern[1].foot_size \in {2, 3}
                 /\ stress.custom_pattern[1].stressed_syllable_in_foot >= 1
                 /\ stress.custom_pattern[1].stressed_syllable_in_foot
                       <= stress.custom_pattern[1].foot_size
            ELSE stress.custom_pattern = None

\* a profile with a three-syllable foot stressed on its last syllable has
\* been created
C14_Witness ==
    /\ wizard[1].result = "Accepted"
    /\ \E id \in DOMAIN languages_store :
          LET stress == languages_store[id].stress
          IN  /\ stress.pattern = "CUSTOM_FOOT"
              /\ stress.custom_pattern # None
              /\ stress.custom_pattern[1].foot_size = 3
              /\ stress.custom_pattern[1].stressed_syllable_in_foot = 3

\* C27: whatever the foot-size changes and stressed-syllable selections,
\* the stressed-syllable choices offered are exactly 1..foot_size of the
\* selected foot size and one of them is current (a change of the foot size
\* makes the first one current), so the custom pattern collect_data builds
\* passes validate: collect_data raises nothing but the two inventory errors
C27_StressChoicesMatchFootSize ==
    /\ [](wizard # None =>
            LET page == wizard[1]
                foot_size == IF page.foot_size_index = 0 THEN 2 ELSE 3
                custom == CustomPatternOf([page EXCEPT
                                             !.stress_pattern = "CUSTOM_FOOT"])
            IN  /\ page.stressed_items = [idx \in 1..foot_size |-> idx]
                /\ page.stressed_index \in 0..(foot_size - 1)
                /\ custom[1].foot_size = foot_size
                /\ validate(custom[1]) = None
                /\ PhonologyPage_collect_data(page).raised =
                      InventoryError(selected_symbols(page.consonant_checked),
                                     selected_symbols(page.vowel_checked)))
    /\ [][handler' = "_sync_stress_syllable_choices" =>
             /\ wizard'[1].foot_size_index # wizard[1].foot_size_index
             /\ wizard'[1].stressed_index = 0]_vars

\* the foot size has gone back to two syllables after the other pickers of
\* the custom form were used, and the first of the two choices is current
C27_Witness ==
    /\ handler = "_sync_stress_syllable_choices"
    /\ wizard[1].stress_pattern = "CUSTOM_FOOT"
    /\ wizard[1].foot_size_index = 0
    /\ wizard[1].stressed_items = <<1, 2>>
    /\ wizard[1].stressed_index = 0
    /\ wizard[1].foot_direction_index = 1
    /\ wizard[1].main_stress_index = 1

\* the texts of the items of a position list
ItemTexts(widget) == [index \in 1..Len(widget) |-> widget[index].text]

\* C28: after any sequence of consonant selections and deselections each of
\* the onset, medial and coda lists holds exactly the currently selected
\* consonants followed by the clusters generated from them; an option is
\* checked after a rebuild only if it was present and checked just before
\* it; every string collected into onset_clusters, medial_clusters or
\* coda_clusters is a selected consonant or the concatenation of two
\* distinct selected consonants
C28_PositionListsFollowInventory ==
    /\ [](wizard # None =>
            LET page == wizard[1]
                cons == selected_symbols(page.consonant_checked)
                options == cons \o _generate_clusters(cons)
                allowed == Range(cons)
                           \cup {cons[i[1]] \o cons[i[2]] :
                                   i \in {pair \in (1..Len(cons)) \X (1..Len(cons)) :
                                             pair[1] # pair[2]}}
            IN  /\ ItemTexts(page.onset_list) = options
                /\ ItemTexts(page.medial_list) = options
                /\ ItemTexts(page.coda_list) = options
                /\ \A widget \in {page.onset_list, page.medial_list,
                                  page.coda_list} :
                      Range(_checked_items(widget)) \subseteq allowed)
    /\ [][handler' = "consonant_chart" =>
             \A name \in {"onset_list", "medial_list", "coda_list"} :
                LET before == wizard[1][name]
                    after == wizard'[1][name]
                IN  \A i \in 1..Len(after) :
                       after[i].checked =>
                          \E j \in 1..Len(before) :
                             /\ before[j].text = after[i].text
                             /\ before[j].checked]_vars

\* C29: the page index of the wizard is in 0..3, Back is enabled iff the
\* index is above 0, Next iff it is below 3, Finish iff it is 3 (never Next
\* and Finish together); Back and Next move the index by exactly one and
\* never outside 0..3
C29_PagesAndButtons ==
    /\ [](wizard # None =>
            LET self == wizard[1]
            IN  /\ self.page_index \in 0..3
                /\ self.back_enabled <=> self.page_index > 0
                /\ self.next_enabled <=> self.page_index < 3
                /\ self.finish_enabled <=> self.page_index = 3
                /\ ~(self.next_enabled /\ self.finish_enabled))
    /\ [][handler' = "_go_back" =>
             /\ wizard'[1].page_index = wizard[1].page_index - 1
             /\ wizard'[1].page_index \in 0..3]_vars
    /\ [][handler' = "_go_next" =>
             /\ wizard'[1].page_index = wizard[1].page_index + 1
             /\ wizard'[1].page_index \in 0..3]_vars

\* Back has led from the last page to the third: Next is enabled again,
\* Finish no longer
C29_Witness ==
    /\ handler = "_go_back"
    /\ wizard[1].page_index = 2
    /\ wizard[1].back_enabled /\ wizard[1].next_enabled
    /\ ~wizard[1].finish_enabled
    /\ wizard[1].consonant_checked # {}

----------------------------------------------------------------------------
(* The handlers of the main window                                         *)

\* "New Language": launch_language_creation from the construction of the
\* wizard to its return. The user sets up the pages and clicks Finish; when
\* accept refuses, the user cancels. The wizard is a local variable.
MainWindow_launch_language_creation(pages, typed_texts) ==
    /\ Len(issued) < MaxLanguages
    /\ \E page \in pages, typed \in typed_texts, generated \in GeneratedNames,
          identifier \in uuid4(issued) :
          LET done == accept(page, typed, generated, identifier)
          IN  IF done.self.result = "Accepted"
                 /\ done.self._language_profile # None
              THEN /\ issued' = Append(issued, identifier)
                   /\ set_current_language(
                         Put(lists, identifier, done.lexicon_items),
                         done.self._language_profile[1],
                         done.self._tagline)
                   /\ message_box' = None
              ELSE /\ message_box' = done.warning
                   /\ UNCHANGED <<issued, loaded_vars>>
    /\ handler' = "launch_language_creation"
    /\ UNCHANGED <<wizard, dictionary_inputs, outside_window>>

\* "Open Language": open_language with the LanguageSelectionDialog it runs
MainWindow_open_language ==
    /\ IF DOMAIN languages_store = {}
       THEN /\ message_box' = Some("No Languages Found")
            /\ UNCHANGED loaded_vars
       ELSE /\ message_box' = None
            /\ \/ UNCHANGED loaded_vars
               \/ \E language_id \in DOMAIN languages_store :
                     set_current_language(lists, languages_store[language_id],
                        IF language_id \in DOMAIN language_taglines
                        THEN language_taglines[language_id] ELSE <<>>)
    /\ handler' = "open_language"
    /\ UNCHANGED <<wizard, issued, dictionary_inputs, outside_window>>

\* return_to_start that shows the start screen and keeps the language
MainWindow_return_to_start_keepsLanguage ==
    /\ stack' = "start_screen"
    /\ message_box' = None
    /\ handler' = "return_to_start"
    /\ UNCHANGED <<wizard, issued, current_language, languages_store,
                   language_taglines, _entries, lists, table_rows,
                   selected_rows, translator_lexicon, grammar_notes,
                   dictionary_inputs, outside_window>>

\* MainWindow.return_to_start
MainWindow_return_to_start ==
    /\ current_language' = None
    /\ stack' = "start_screen"
    /\ message_box' = None
    /\ handler' = "return_to_start"
    /\ UNCHANGED <<wizard, issued, languages_store, language_taglines,
                   _entries, lists, table_rows, selected_rows,
                   translator_lexicon, grammar_notes, dictionary_inputs,
                   outside_window>>

\* MainWindow.save_language
MainWindow_save_language ==
    /\ message_box' = IF current_language = None
                      THEN Some("Nothing to Save") ELSE Some("Save Language")
    /\ handler' = "save_language"
    /\ UNCHANGED <<wizard, issued, loaded_vars, dictionary_inputs,
                   outside_window>>

\* the user edits the text of the grammar tab
GrammarEditorWidget_edited(texts) ==
    /\ \E text \in texts \ {grammar_notes} : grammar_notes' = text
    /\ message_box' = None
    /\ handler' = "editor"
    /\ UNCHANGED <<wizard, issued, current_language, languages_store,
                   language_taglines, _entries, lists, table_rows,
                   selected_rows, translator_lexicon, stack,
                   dictionary_inputs, outside_window>>

----------------------------------------------------------------------------
(* Specification of a session of the main window                           *)

\* wizards as the user leaves them before Finish: p and a checked, or p
\* only, and the last page shown
MainPages ==
    {_update_buttons([NewWizard EXCEPT !.consonant_checked = {<<112>>},
                                       !.vowel_checked = vowel_checked,
                                       !.page_index = PageCount - 1]) :
        vowel_checked \in {{}, {<<97>>}}}

\* what is typed into the wizard: the name 'a', the tagline 't' and the
\* lexicon line 'a=b'
MainTexts == {Typed(<<97>>, <<116>>, <<97, 61, 98>>)}

InitMain ==
    /\ MainWindow_init
    /\ wizard = None
    /\ returned = {}
    /\ ParsersIdle /\ StressIdle /\ NameIdle /\ ConfigIdle /\ TabsIdle

NextMain ==
    \/ MainWindow_launch_language_creation(MainPages, MainTexts)
    \/ MainWindow_open_language
    \/ MainWindow_return_to_start
    \/ MainWindow_save_language
    \/ GrammarEditorWidget_edited({<<103>>})
    \/ DictionaryWidget_word_edited({<<99>>})
    \/ DictionaryWidget_ipa_edited({<<105>>})
    \/ DictionaryWidget_definition_edited({<<100>>})
    \/ DictionaryWidget_rows_selected({0})
    \/ DictionaryWidget_on_search_changed({<<>>, <<98>>})
    \/ DictionaryWidget_add_entry
    \/ DictionaryWidget_remove_selected

SpecMain == InitMain /\ [][NextMain]_vars

----------------------------------------------------------------------------
(* Identity and immutability of the created profiles                       *)

C17_ProfilesImmutable ==
    [][\A language_id \in DOMAIN languages_store :
          /\ language_id \in DOMAIN languages_store'
          /\ languages_store'[language_id] = languages_store[language_id]
          /\ lists'[languages_store[language_id].lexicon]
                = lists[languages_store[language_id].lexicon]]_vars

\* an entry was added to the dictionary that was loaded from the current
\* language, whose own lexicon has one entry
C17_Witness ==
    /\ handler = "_add_entry"
    /\ message_box = None
    /\ current_language # None
    /\ Len(lists[current_language[1].lexicon]) = 1
    /\ Len(lists[_entries]) = 2

\* C26: current_language is None or the very profile stored in
\* languages_store under its own identifier; the tab view is shown exactly
\* when current_language is not None and the start screen otherwise;
\* languages_store never loses or replaces an entry; Open Language with an
\* empty store changes no state of the window and its widgets
C26_CurrentLanguageStored ==
    /\ [](\/ current_language = None
          \/ /\ current_language[1].identifier \in DOMAIN languages_store
             /\ languages_store[current_language[1].identifier]
                   = current_language[1])
    /\ [](/\ stack \in {"start_screen", "tabs"}
          /\ stack = "tabs" <=> current_language # None)
    /\ [][\A language_id \in DOMAIN languages_store :
             /\ language_id \in DOMAIN languages_store'
             /\ languages_store'[language_id] = languages_store[language_id]
         ]_vars
    /\ [][handler' = "open_language" /\ DOMAIN languages_store = {} =>
             UNCHANGED <<window_vars, heap_vars, dictionary_vars, tab_vars,
                         config_vars>>]_vars

\* Open Language has brought back the first of two created languages after
\* a return to the start screen
C26_Witness ==
    /\ handler = "open_language"
    /\ Len(issued) = 2
    /\ stack = "tabs"
    /\ current_language # None
    /\ current_language[1].identifier = issued[1]
    /\ languages_store[issued[1]] = current_language[1]

----------------------------------------------------------------------------
(* The lexicon parser run twice on the same text                           *)

\* most tokens (see LexiconTokens) of the text that is parsed twice
MaxRunTokens == 3

\* what the text parsed twice is made of:
\* a, space, newline, =, :, (a), #
LexiconTokens ==
    {<<97>>, <<32>>, <<10>>, <<61>>, <<58>>, <<40, 97, 41>>, <<35>>}

InitLexiconTwice ==
    /\ lexicon_edit \in
          {Concat(parts) : parts \in StringsUpTo(LexiconTokens, MaxRunTokens)}
    /\ entries = <<>>
    /\ affix_edit = <<>>
    /\ derived_edit = <<>>
    /\ affixes = <<>>
    /\ derived = <<>>
    /\ consonants = <<>>
    /\ clusters = <<>>
    /\ returned = {}
    /\ AppIdle

\* a second call that goes on with the entries of the first
LexiconPage_collect_data_again_accumulating ==
    /\ "lexicon" \in returned
    /\ "lexicon again" \notin returned
    /\ entries' = entries \o CollectLexicon(lexicon_edit)
    /\ returned' = returned \cup {"lexicon again"}
    /\ UNCHANGED <<lexicon_edit, affix_edit, derived_edit, affixes, derived,
                   consonants, clusters, app_vars>>

\* LexiconPage.collect_data called a second time on the same page: entries
\* is a local list, empty at the start of every call
LexiconPage_collect_data_again ==
    /\ "lexicon" \in returned
    /\ "lexicon again" \notin returned
    /\ entries' = CollectLexicon(lexicon_edit)
    /\ returned' = returned \cup {"lexicon again"}
    /\ UNCHANGED <<lexicon_edit, affix_edit, derived_edit, affixes, derived,
                   consonants, clusters, app_vars>>

NextLexiconTwice ==
    \/ LexiconPage_collect_data
    \/ LexiconPage_collect_data_again

SpecLexiconTwice == InitLexiconTwice /\ [][NextLexiconTwice]_vars

----------------------------------------------------------------------------
(* The cap of PhonologyPage._generate_clusters                             *)

\* the k-th ordered pair of distinct symbols in the order the two loops
\* enumerate them, as <<first, second>> indices into consonants
PairAt(k) ==
    LET others == Len(consonants) - 1
        first == ((k - 1) \div others) + 1
        rank == ((k - 1) % others) + 1
    IN  <<first, IF rank < first THEN rank ELSE rank + 1>>

\* index of the first symbol that is being processed when the cap is reached
StopIndex == PairAt(limit)[1]

\* C25: with more ordered pairs than the cap, the result has no more than
\* 200 strings; it holds every pair whose first symbol comes before the
\* first symbol processed at the stop and no pair whose first symbol comes
\* after it; it is made of the first 200 pairs in enumeration order, sorted
C25_CapKeepsFirstPairs ==
    (ClustersReturned /\ Len(consonants) * (Len(consonants) - 1) > limit) =>
      LET kept == {clusters[i] : i \in 1..Len(clusters)}
          pair(first, second) == consonants[first] \o consonants[second]
      IN  /\ Len(clusters) <= limit
          /\ \A first, second \in 1..Len(consonants) :
                first # second =>
                  /\ first < StopIndex => pair(first, second) \in kept
                  /\ first > StopIndex => pair(first, second) \notin kept
          /\ kept = {pair(PairAt(k)[1], PairAt(k)[2]) : k \in 1..limit}
          /\ \A i \in 1..(Len(clusters) - 1) :
                LexLess(clusters[i], clusters[i + 1])

\* 16 consonants: the cap is reached while the 14th is processed, so two
\* symbols come later
C25_Witness ==
    /\ ClustersReturned
    /\ Len(consonants) = 16
    /\ StopIndex = 14
    /\ Len(clusters) = limit

----------------------------------------------------------------------------
(* Config.set, Config.save and the start of the next process               *)

\* Python values json.load never builds: a tuple, and a pathlib.Path
Tuple(elements) == <<"tuple", elements>>
PathObject(name) == <<"PosixPath", name>>

\* whether json.dump can encode the value (JSONEncoder.default raises
\* TypeError for any other type)
RECURSIVE Serializable(_)
Serializable(value) ==
    CASE TypeOf(value) \in {"str", "int", "bool", "NoneType"} -> TRUE
      [] TypeOf(value) \in {"list", "tuple"} ->
            \A i \in 1..Len(value[2]) : Serializable(value[2][i])
      [] OTHER -> FALSE

\* the value json.load builds from the text json.dump wrote for a value:
\* tuples are written as arrays
RECURSIVE Reloaded(_)
Reloaded(value) ==
    IF TypeOf(value) \in {"list", "tuple"}
    THEN List([i \in 1..Len(value[2]) |-> Reloaded(value[2][i])])
    ELSE value

\* the members written for the keys, one after the other (keys are str)
RECURSIVE MembersOf(_, _)
MembersOf(d, keys) ==
    IF keys = {} THEN <<>>
    ELSE LET key == CHOOSE k \in keys : TRUE
         IN  <<<<key, Reloaded(d[key])>>>> \o MembersOf(d, keys \ {key})

\* Config.save: the content of the file afterwards. json.dump writes as it
\* encodes, so a value it cannot encode leaves a text cut short, which is
\* not JSON; the TypeError is caught and printed
save(d) ==
    IF \A key \in DOMAIN d : Serializable(d[key])
    THEN JsonText(Dict(MembersOf(d, DOMAIN d)))
    ELSE InvalidText

\* the keys set in the bounded model: theme, recent_files and x
RoundTripKeys ==
    {Str(<<116, 104, 101, 109, 101>>),
     Str(<<114, 101, 99, 101, 110, 116, 95, 102, 105, 108, 101, 115>>),
     Str(<<120>>)}

\* the values set: 'dark', ['a'], ('a',), [Path('a')], False
RoundTripValues ==
    {Str(<<100, 97, 114, 107>>),
     List(<<Str(<<97>>)>>),
     Tuple(<<Str(<<97>>)>>),
     List(<<PathObject(<<97>>)>>),
     Bool(FALSE)}

InitRoundTrip ==
    /\ settings = DefaultSettings
    /\ config_file = None
    /\ fresh_settings = None
    /\ raised = None
    /\ message_box = None
    /\ handler = None
    /\ returned = {}
    /\ ParsersIdle /\ StressIdle /\ NameIdle /\ WindowIdle /\ HeapIdle
    /\ DictionaryIdle /\ TabsIdle

outside_config == <<parser_vars, stress_vars, name_vars, window_vars,
                    heap_vars, dictionary_vars, tab_vars, message_box,
                    handler>>

\* Config.set
Config_set(keys, values) ==
    /\ "save" \notin returned
    /\ \E key \in keys, value \in values :
          settings' = Put(settings, key, value)
    /\ raised' = None
    /\ UNCHANGED <<config_file, fresh_settings, returned, outside_config>>

\* Config.save
Config_save ==
    /\ "save" \notin returned
    /\ config_file' = Some(save(settings))
    /\ raised' = None
    /\ returned' = returned \cup {"save"}
    /\ UNCHANGED <<settings, fresh_settings, outside_config>>

\* the next process: Config() followed by load(), as main.py does
Config_load_fresh ==
    /\ "save" \in returned
    /\ "load" \notin returned
    /\ LET done == load(DefaultSettings, config_file)
       IN  /\ fresh_settings' = Some(done.settings)
           /\ raised' = done.raised
    /\ returned' = returned \cup {"load"}
    /\ UNCHANGED <<settings, config_file, outside_config>>

NextRoundTrip ==
    \/ Config_set(RoundTripKeys, RoundTripValues)
    \/ Config_save
    \/ Config_load_fresh

SpecRoundTrip == InitRoundTrip /\ [][NextRoundTrip]_vars

\* the four documented keys
DocumentedKeys == DOMAIN DefaultSettings

\* C21: whatever was set before, once the settings are saved and a new
\* Config has loaded them, theme, recent_files, auto_save and language have
\* in the new Config the values they had in the saved one
C21_RoundTrip ==
    "load" \in returned =>
        \A key \in DocumentedKeys : fresh_settings[1][key] = settings[key]

----------------------------------------------------------------------------
(* IPAInputWidget (src/src/widgets/ipa_input_widget.py)                    *)

\* most conversions of non-empty text in one run of the widget
MaxConversions == 11

\* the length the list of recent conversions is cut back to
RecentShown == 10

\* _to_ipa: every character replaced by what _ipa_map holds for its
\* lower-case form (itself if the map has no such key), capitalized when the
\* character is upper case. The map has a key for each of a..z.
_to_ipa(text) ==
    LET _ipa_map(char) ==
            CASE char = 121 -> <<106>>          \* y -> j
              [] char = 99 -> <<107>>           \* c -> k
              [] char = 113 -> <<107>>          \* q -> k
              [] char = 120 -> <<107, 115>>     \* x -> ks
              [] char = 106 -> <<658>>          \* j -> U+0292
              [] char = 103 -> <<609>>          \* g -> U+0261
              [] char = 114 -> <<638>>          \* r -> U+027E
              [] OTHER -> <<char>>
        upper(char) ==
            CASE char \in 97..122 -> char - 32
              [] char = 658 -> 439
              [] char = 609 -> 42924
              [] char = 638 -> 11364
              [] OTHER -> char
        capitalize(s) ==
            [i \in 1..Len(s) |-> IF i = 1 THEN upper(s[1]) ELSE Lower(s)[i]]
        ipa_value(char) ==
            IF Lower(<<char>>)[1] \in 97..122
            THEN _ipa_map(Lower(<<char>>)[1]) ELSE <<char>>
    IN  Concat([i \in 1..Len(text) |->
                  IF text[i] \in 65..90 THEN capitalize(ipa_value(text[i]))
                  ELSE ipa_value(text[i])])

\* _append_history that cuts the list back to 9 items
_append_history_shortList(history, items, source, ipa) ==
    LET record == source \o <<32, 8594, 32>> \o ipa
        longer == <<record>> \o items
    IN  [_history |-> <<record>> \o history,
         history_list |-> IF Len(longer) >= RecentShown
                          THEN SubSeq(longer, 1, Len(longer) - 1)
                          ELSE longer]

\* _append_history on the list history and the items shown: the record
\* "source -> ipa" goes in front of both, and the last item shown is taken
\* away when there are more than 10
_append_history(history, items, source, ipa) ==
    LET record == source \o <<32, 8594, 32>> \o ipa
        longer == <<record>> \o items
    IN  [_history |-> <<record>> \o history,
         history_list |-> IF Len(longer) > RecentShown
                          THEN SubSeq(longer, 1, Len(longer) - 1)
                          ELSE longer]

\* _on_convert_clicked: the output text, _history and the items shown
_on_convert_clicked(typed, history, items) ==
    LET text == Strip(typed)
    IN  IF text = <<>>
        THEN [output |-> <<>>, _history |-> history, history_list |-> items]
        ELSE LET appended == _append_history(history, items, text,
                                             _to_ipa(text))
             IN  [output |-> _to_ipa(text),
                  _history |-> appended._history,
                  history_list |-> appended.history_list]

outside_ipa == <<parser_vars, returned, stress_vars, name_vars, window_vars,
                 heap_vars, dictionary_vars, raised, config_vars,
                 source_edit, output_edit, status_label>>

\* the user types into input_edit
IPAInputWidget_input_edited(texts) ==
    /\ \E text \in texts \ {input_edit} : input_edit' = text
    /\ message_box' = None
    /\ handler' = "input_edit"
    /\ UNCHANGED <<ipa_output_edit, _history, history_list, outside_ipa>>

\* convert_button.clicked -> _on_convert_clicked
IPAInputWidget_on_convert_clicked ==
    /\ Len(_history) < MaxConversions \/ Strip(input_edit) = <<>>
    /\ LET done == _on_convert_clicked(input_edit, _history, history_list)
       IN  /\ ipa_output_edit' = done.output
           /\ _history' = done._history
           /\ history_list' = done.history_list
    /\ message_box' = None
    /\ handler' = "_on_convert_clicked"
    /\ UNCHANGED <<input_edit, outside_ipa>>

\* clear_button.clicked -> _clear_fields
IPAInputWidget_clear_fields ==
    /\ input_edit' = <<>>
    /\ ipa_output_edit' = <<>>
    /\ message_box' = None
    /\ handler' = "_clear_fields"
    /\ UNCHANGED <<_history, history_list, outside_ipa>>

\* history_list.itemActivated -> _on_history_selected
IPAInputWidget_on_history_selected ==
    /\ \E row \in 1..Len(history_list) :
          ipa_output_edit' =
             LET parts == SplitOnceStripped(history_list[row], <<8594>>)
             IN  parts[Len(parts)]
    /\ message_box' = None
    /\ handler' = "_on_history_selected"
    /\ UNCHANGED <<input_edit, _history, history_list, outside_ipa>>

\* what is typed: a blank, 'a', and ' X' (which gives the record X -> Ks)
IpaTexts == {<<32>>, <<97>>, <<32, 88>>}

InitIpa ==
    /\ input_edit = <<>>
    /\ ipa_output_edit = <<>>
    /\ _history = <<>>
    /\ history_list = <<>>
    /\ source_edit = <<>> /\ output_edit = <<>> /\ status_label = <<>>
    /\ raised = None
    /\ message_box = None
    /\ handler = "__init__"
    /\ returned = {}
    /\ ParsersIdle /\ StressIdle /\ NameIdle /\ WindowIdle /\ HeapIdle
    /\ DictionaryIdle /\ ConfigIdle

NextIpa ==
    \/ IPAInputWidget_input_edited(IpaTexts)
    \/ IPAInputWidget_on_convert_clicked
    \/ IPAInputWidget_clear_fields
    \/ IPAInputWidget_on_history_selected

SpecIpa == InitIpa /\ [][NextIpa]_vars

\* C30: the list of recent conversions shows at most 10 records, which are
\* the first min(10, k) records of _history, newest first, k being the
\* number of records _history holds; a conversion of non-empty text puts
\* its record in front of _history, and a conversion of empty or blank
\* text adds no record and clears the output
C30_RecentConversions ==
    /\ [](/\ Len(history_list) <= 10
          /\ history_list =
                SubSeq(_history, 1,
                       IF Len(_history) < 10 THEN Len(_history) ELSE 10))
    /\ [][handler' = "_on_convert_clicked" =>
            IF Strip(input_edit) = <<>>
            THEN /\ _history' = _history
                 /\ history_list' = history_list
                 /\ ipa_output_edit' = <<>>
            ELSE /\ Len(_history') = Len(_history) + 1
                 /\ SubSeq(_history', 2, Len(_history')) = _history
                 /\ _history'[1] = Strip(input_edit) \o <<32, 8594, 32>>
                                      \o ipa_output_edit']_vars

\* eleven conversions were made, the oldest of 'X' and the newest of 'a':
\* ten are shown, and a blank was converted last, which cleared the output
C30_Witness ==
    /\ Len(_history) = 11
    /\ Len(history_list) = 10
    /\ _history[11] = <<88, 32, 8594, 32, 75, 115>>
    /\ history_list[1] = <<97, 32, 8594, 32, 97>>
    /\ handler = "_on_convert_clicked"
    /\ Strip(input_edit) = <<>>
    /\ ipa_output_edit = <<>>

----------------------------------------------------------------------------
(* TranslatorWidget._translate                                             *)

\* most pieces (see SourcePieces) of the text typed into the translator
MaxSourcePieces == 2

\* c in string.punctuation
IsPunctuation(c) ==
    c \in (33..47) \cup (58..64) \cup (91..96) \cup (123..126)

\* str.split(): the runs of characters that are not whitespace, from index
\* i, cur being the run collected so far
RECURSIVE SplitFrom(_, _, _)
SplitFrom(s, i, cur) ==
    IF i > Len(s) THEN (IF cur = <<>> THEN <<>> ELSE <<cur>>)
    ELSE IF IsSpace(s[i])
         THEN (IF cur = <<>> THEN <<>> ELSE <<cur>>) \o SplitFrom(s, i + 1, <<>>)
         ELSE SplitFrom(s, i + 1, Append(cur, s[i]))

\* " ".join(parts)
RECURSIVE JoinSpaced(_)
JoinSpaced(parts) ==
    IF parts = <<>> THEN <<>>
    ELSE IF Len(parts) = 1 THEN parts[1]
    ELSE parts[1] \o <<32>> \o JoinSpaced(Tail(parts))

\* where the two while loops of _translate_token stop: start (0-based) and
\* end of the core
CoreStart(token) ==
    LET stops == {i \in 0..Len(token) :
                    i = Len(token) \/ ~IsPunctuation(token[i + 1])}
    IN  CHOOSE i \in stops : \A j \in stops : i <= j

CoreEnd(token) ==
    LET stops == {i \in CoreStart(token)..Len(token) :
                    i = CoreStart(token) \/ ~IsPunctuation(token[i])}
    IN  CHOOSE i \in stops : \A j \in stops : j <= i

\* str.capitalize on letters A..Z, a..z
Capitalize(s) ==
    [i \in 1..Len(s) |->
        IF i = 1 THEN (IF s[1] \in 97..122 THEN s[1] - 32 ELSE s[1])
        ELSE Lower(s)[i]]

\* translation_map.get(key, default): the target of the last entry whose
\* source is not empty and is key in lower case
MapGet(lexicon, key, default) ==
    LET found == {i \in 1..Len(lexicon) :
                    lexicon[i].source # <<>> /\ Lower(lexicon[i].source) = key}
    IN  IF found = {} THEN default
        ELSE lexicon[CHOOSE i \in found : \A j \in found : j <= i].target

\* _translate_token, the translation map being that of the lexicon
_translate_token(token, lexicon) ==
    LET start == CoreStart(token)
        end == CoreEnd(token)
        core == Slice(token, start, end)
        translated_core == MapGet(lexicon, Lower(core), core)
    IN  IF core = <<>> THEN token
        ELSE Slice(token, 0, start)
             \o (IF core[1] \in 65..90 THEN Capitalize(translated_core)
                 ELSE translated_core)
             \o Slice(token, end, Len(token))

\* _translate: the output text and the status shown; the output is cleared
\* when the source is blank
_translate(typed, lexicon) ==
    LET source_text == Strip(typed)
        tokens == SplitFrom(source_text, 1, <<>>)
    IN  IF source_text = <<>>
        THEN [output |-> <<>>, status |-> "Enter text to translate."]
        ELSE [output |->
                 JoinSpaced([i \in 1..Len(tokens) |->
                               _translate_token(tokens[i], lexicon)]),
              status |-> "Translation complete."]

\* what the source text is made of: the, The, AB, b, !, space
SourcePieces ==
    {<<116, 104, 101>>, <<84, 104, 101>>, <<65, 66>>, <<98>>, <<33>>, <<32>>}

outside_translator == <<parser_vars, returned, stress_vars, name_vars,
                        window_vars, heap_vars, dictionary_vars, raised,
                        config_vars, input_edit, ipa_output_edit, _history,
                        history_list>>

\* the user types into source_edit
TranslatorWidget_source_edited(texts) ==
    /\ \E text \in texts \ {source_edit} : source_edit' = text
    /\ message_box' = None
    /\ handler' = "source_edit"
    /\ UNCHANGED <<output_edit, status_label, outside_translator>>

\* translate_button.clicked -> _translate
TranslatorWidget_translate ==
    /\ LET done == _translate(source_edit, translator_lexicon)
       IN  /\ output_edit' = done.output
           /\ status_label' = done.status
    /\ message_box' = None
    /\ handler' = "_translate"
    /\ UNCHANGED <<source_edit, outside_translator>>

\* TranslatorWidget.__init__: the default lexicon, empty boxes, "Ready"
InitTranslator ==
    /\ translator_lexicon = DefaultLexicon
    /\ source_edit = <<>>
    /\ output_edit = <<>>
    /\ status_label = "Ready"
    /\ wizard = None /\ current_language = None
    /\ languages_store = <<>> /\ language_taglines = <<>>
    /\ issued = <<>> /\ grammar_notes = <<>>
    /\ stack = "start_screen"
    /\ input_edit = <<>> /\ ipa_output_edit = <<>>
    /\ _history = <<>> /\ history_list = <<>>
    /\ raised = None
    /\ message_box = None
    /\ handler = "__init__"
    /\ returned = {}
    /\ ParsersIdle /\ StressIdle /\ NameIdle /\ HeapIdle
    /\ DictionaryIdle /\ ConfigIdle

NextTranslator ==
    \/ TranslatorWidget_source_edited(
          {Concat(parts) : parts \in StringsUpTo(SourcePieces, MaxSourcePieces)})
    \/ TranslatorWidget_translate

SpecTranslator == InitTranslator /\ [][NextTranslator]_vars

\* the token without its leading and trailing punctuation
CoreOf(token) ==
    LET inside == {i \in 1..Len(token) : ~IsPunctuation(token[i])}
    IN  IF inside = {} THEN <<>>
        ELSE SubSeq(token,
                    CHOOSE i \in inside : \A j \in inside : i <= j,
                    CHOOSE i \in inside : \A j \in inside : j <= i)

\* C22: after Translate, every token of the source text whose core is not,
\* compared in lower case, a source word of the working lexicon stands in
\* the output at its place, character for character
C22_UnknownTokensUnchanged ==
    [][handler' = "_translate" =>
         LET tokens == SplitFrom(source_edit, 1, <<>>)
             output == SplitFrom(output_edit', 1, <<>>)
             sources == {Lower(translator_lexicon[i].source) :
                            i \in 1..Len(translator_lexicon)}
         IN  /\ Len(output) = Len(tokens)
             /\ \A i \in 1..Len(tokens) :
                   Lower(CoreOf(tokens[i])) \notin sources
                      => output[i] = tokens[i]]_vars

====
